---- MODULE Spec2Model ----
(***************************************************************************)
(* UPBCash: the double-entry ledger and the wallet balance cache of        *)
(* accounting/services.py (WalletService), its models and the deferred     *)
(* balance trigger.  Decimal values are integers counting thousandths of   *)
(* a UCoin, so that 10 is 0.01 and _money() really rounds.                 *)
(***************************************************************************)
EXTENDS Integers, Sequences, FiniteSets, TLC

\* ------------------------------------------------------------ bounds
MaxTx == 2
MaxLongTx == 3
MaxTopups == 2
MaxDirectTx == 1
NumProcs == 2
MaxConcurrentTx == 4
MaxBackfillTx == 4

Events == {1, 2}
Users == {1, 2}
Procs == 1..NumProcs
\* the calendar days of a run
Days == {1, 2}
RefIds == {1, 2}

\* Decimal inputs of the callers, in thousandths: 0.004, 0.010, 0.025
AmountInputs == {4, 10, 25}
\* source_reference values of record_online_topup ("" is "not supplied")
SourceRefs == {"", "ref-1"}
RefModels == {"order"}
\* the staff member of grant_cash_topup, and values set_balance is called with
StaffUsers == {1}
BalanceInputs == {30}
\* direct post_transaction calls: keys (one of them a purchase key) and amounts
DirectKeys == {"manual:1", "purchase:1:order:1"}
DirectAmounts == {<<25, -15>>, <<20, -10>>, <<10, 4>>}
Vendors == {"postgresql", "sqlite"}
\* direct ensure_account calls: a platform code and a code of the caller's own
AccountCodeInputs == {"PLATFORM_CASH", "STALL_1"}
AccountNameInputs == {"Caja plataforma", "Caja"}
AccountTypeInputs == {"asset", "liability"}
\* the legacy tables a backfill_v2 run reads: Recharge, Purchase and Wallet rows
LegacyRecharges ==
    {<<>>, <<[id |-> 1, user |-> 1, amount |-> 25]>>,
     <<[id |-> 1, user |-> 1, amount |-> 25], [id |-> 2, user |-> 1, amount |-> 10]>>,
     <<[id |-> 3, user |-> 1, amount |-> 4]>>}
LegacyPurchases ==
    {<<>>, <<[id |-> 1, user |-> 1, total |-> 10]>>,
     <<[id |-> 1, user |-> 1, total |-> 10], [id |-> 2, user |-> 1, total |-> 25]>>}
LegacyWallets == {<<>>, <<[user |-> 1, balance |-> 30]>>}
LegacyData == [recharges : LegacyRecharges, purchases : LegacyPurchases, wallets : LegacyWallets]

VARIABLES
    vendor,         \* schema_editor.connection.vendor of the deployment
    eventStatus,    \* EventCampaign.status, per event
    accounts,       \* LedgerAccount rows
    ledgerTx,       \* LedgerTransaction rows, in insertion order
    ledgerEntries,  \* LedgerEntry rows, in insertion order
    walletCache,    \* WalletBalanceCache rows: <<event, user>> -> balance_ucoin
    topupRecords,   \* TopupRecord rows, in insertion order (id = position)
    creditGrants,   \* StaffCreditGrant rows
    today,          \* timezone.now().date()
    last,           \* the last call that ended, and how
    pc,             \* per request: the statement a request in flight is at
    call,           \* per request: the call it serves and its arguments
    local,          \* per request: what the call has read and inserted so far
    rowLock,        \* per WalletBalanceCache row: the request holding FOR UPDATE
    stallProducts,  \* StallProduct rows: id -> stall, price, stock mode and quantity
    cartItems,      \* CartItem rows, in insertion order
    stockMovements, \* StockMovement rows, in insertion order
    salesOrders,    \* SalesOrder rows with their items, in insertion order (id = position)
    orderQrTokens,  \* OrderQrToken rows, in insertion order
    deliveryLogs,   \* OrderDeliveryLog rows, in insertion order
    now,            \* timezone.now(), in minutes
    userGroups,     \* EventUserGroup rows: <<event, user, group name>>
    staffAuditLogs  \* StaffAuditLog rows, in insertion order

roleVars == <<userGroups, staffAuditLogs>>

commerceVars == <<stallProducts, cartItems, stockMovements, salesOrders, orderQrTokens,
                  deliveryLogs, now>>

vars == <<vendor, eventStatus, accounts, ledgerTx, ledgerEntries, walletCache,
          topupRecords, creditGrants, today, last, pc, call, local, rowLock,
          commerceVars, roleVars>>

requestVars == <<pc, call, local, rowLock>>

\* ------------------------------------------------------------ money
\* _money: Decimal(amount).quantize(Decimal("0.01")), ROUND_HALF_EVEN
Money(amount) ==
    LET q == amount \div 10
        r == amount % 10
    IN IF r < 5 THEN q * 10
       ELSE IF r > 5 THEN (q + 1) * 10
       ELSE IF q % 2 = 0 THEN q * 10 ELSE (q + 1) * 10

\* ------------------------------------------------------------ the store
\* The tables the WalletService writes, as one value: a unit of work computes
\* a new value from the old one and either commits it or drops it.
DB ==
    [accounts |-> accounts, ledgerTx |-> ledgerTx, ledgerEntries |-> ledgerEntries,
     walletCache |-> walletCache, topupRecords |-> topupRecords,
     creditGrants |-> creditGrants]

Store(d) ==
    /\ accounts' = d.accounts
    /\ ledgerTx' = d.ledgerTx
    /\ ledgerEntries' = d.ledgerEntries
    /\ walletCache' = d.walletCache
    /\ topupRecords' = d.topupRecords
    /\ creditGrants' = d.creditGrants

\* how a call ends: the exception class and its message, or the value returned
Raise(d, error, message) == [db |-> d, raised |-> error, msg |-> message, ret |-> 0]
Return(d, value) == [db |-> d, raised |-> "none", msg |-> "", ret |-> value]

RECURSIVE SumSeq(_)
SumSeq(s) == IF s = <<>> THEN 0 ELSE Head(s) + SumSeq(Tail(s))

\* the entries of transaction tx / against account acc, as row positions
EntriesOfTx(d, tx) == {i \in 1..Len(d.ledgerEntries) : d.ledgerEntries[i].transaction = tx}

RECURSIVE SumEntries(_, _)
SumEntries(d, rows) ==
    IF rows = {} THEN 0
    ELSE LET i == CHOOSE j \in rows : TRUE
         IN d.ledgerEntries[i].amount_mxn_signed + SumEntries(d, rows \ {i})

TxBalance(d, tx) == SumEntries(d, EntriesOfTx(d, tx))

\* ------------------------------------------------------------ accounts
PLATFORM_CASH_CODE == "PLATFORM_CASH"
PLATFORM_REVENUE_CODE == "PLATFORM_REVENUE"
PLATFORM_EXPIRY_CODE == "PLATFORM_EXPIRY"

WalletAccountCode_Shared(user_id) == "WALLET_USER_1"

WalletAccountCode(user_id) == "WALLET_USER_" \o ToString(user_id)

AccountRef(event, code) == [event |-> event, code |-> code]

EnsureAccount_Create(d, event, code, name, account_type, owner_user) ==
    [d EXCEPT !.accounts = @ \cup
        {[event |-> event, code |-> code, name |-> name,
          account_type |-> account_type, owner_user |-> owner_user,
          is_active |-> TRUE]}]

\* LedgerAccount.objects.get_or_create(event, code, defaults)
EnsureAccount(d, event, code, name, account_type, owner_user) ==
    IF \E a \in d.accounts : a.event = event /\ a.code = code
    THEN d
    ELSE [d EXCEPT !.accounts = @ \cup
            {[event |-> event, code |-> code, name |-> name,
              account_type |-> account_type, owner_user |-> owner_user,
              is_active |-> TRUE]}]

EnsurePlatformAccounts(d, event) ==
    LET d1 == EnsureAccount(d, event, PLATFORM_CASH_CODE, "Caja plataforma", "asset", 0)
        d2 == EnsureAccount(d1, event, PLATFORM_REVENUE_CODE, "Ingreso plataforma", "revenue", 0)
    IN EnsureAccount(d2, event, PLATFORM_EXPIRY_CODE, "Ingreso por expiracion", "revenue", 0)

EnsureUserWalletAccount(d, event, user) ==
    EnsureAccount(d, event, WalletAccountCode(user),
                  "Wallet de " \o ToString(user), "liability", user)

\* ------------------------------------------------------------ balance cache
HasCacheRow(d, event, user) == <<event, user>> \in DOMAIN d.walletCache

\* select_for_update().get_or_create(event, user): the row, created at 0 if absent
GetBalanceCacheForUpdate(d, event, user) ==
    IF HasCacheRow(d, event, user) THEN d
    ELSE [d EXCEPT !.walletCache = @ @@ (<<event, user>> :> 0)]

Balance(d, event, user) == d.walletCache[<<event, user>>]

\* get_balance: the balance of the row, which is created at 0 when absent
GetBalance(d, event, user) ==
    IF HasCacheRow(d, event, user) THEN Balance(d, event, user) ELSE 0

SetBalanceRow_Created(d, event, user, balance) ==
    IF HasCacheRow(d, event, user) THEN d
    ELSE [d EXCEPT !.walletCache = @ @@ (<<event, user>> :> Money(balance))]

\* set_balance: get_or_create the row, then assign and save the balance
SetBalanceRow(d, event, user, balance) ==
    LET d1 == GetBalanceCacheForUpdate(d, event, user)
    IN [d1 EXCEPT !.walletCache[<<event, user>>] = Money(balance)]

ApplyBalanceDelta_Set(d, event, user, delta) ==
    LET d1 == GetBalanceCacheForUpdate(d, event, user)
    IN [d1 EXCEPT !.walletCache[<<event, user>>] = Money(delta)]

ApplyBalanceDelta(d, event, user, delta) ==
    LET d1 == GetBalanceCacheForUpdate(d, event, user)
    IN [d1 EXCEPT !.walletCache[<<event, user>>] = Money(@ + Money(delta))]

SaveBalance_EditingEntry(d, event, user, balance_ucoin) ==
    [d EXCEPT !.walletCache[<<event, user>>] = balance_ucoin,
              !.ledgerEntries = [i \in DOMAIN @ |->
                                    IF i = 1 THEN [@[i] EXCEPT !.amount_mxn_signed = balance_ucoin]
                                    ELSE @[i]]]

\* cache.save(update_fields=["balance_ucoin", "updated_at"]) of a loaded row
SaveBalance(d, event, user, balance_ucoin) ==
    [d EXCEPT !.walletCache[<<event, user>>] = balance_ucoin]

\* ------------------------------------------------------------ post_transaction
IdempotencyKeys(d) == {d.ledgerTx[i].idempotency_key : i \in 1..Len(d.ledgerTx)}

TxWithKey(d, idempotency_key) ==
    {i \in 1..Len(d.ledgerTx) : d.ledgerTx[i].idempotency_key = idempotency_key}

\* LedgerTransaction.objects.filter(idempotency_key=...).first(); 0 is None
ExistingTx_Never(d, idempotency_key) == 0

ExistingTx(d, idempotency_key) ==
    IF TxWithKey(d, idempotency_key) = {} THEN 0
    ELSE CHOOSE i \in TxWithKey(d, idempotency_key) :
            \A j \in TxWithKey(d, idempotency_key) : i <= j

\* trg_accounting_ledger_balance, FOR EACH ROW: the sum over the row's transaction
TriggerRaises(d, tx) == vendor = "postgresql" /\ TxBalance(d, tx) # 0

\* the loop of post_transaction over entries; autocommit: the call runs outside
\* any atomic block, so each INSERT is its own commit and the deferred trigger
\* runs right after it
RECURSIVE CreateEntries(_, _, _, _, _)
CreateEntries(d, tx, entries, amount_sum, autocommit) ==
    IF entries = <<>>
    THEN [db |-> d, raised |-> "none", msg |-> "", amount_sum |-> amount_sum]
    ELSE LET signed == Money(Head(entries).amount)
             row == [transaction |-> tx, account |-> Head(entries).account,
                     amount_mxn_signed |-> signed]
             d1 == [d EXCEPT !.ledgerEntries = Append(@, row)]
         IN IF signed = 0
            THEN [db |-> d, raised |-> "IntegrityError",
                  msg |-> "check_ledger_entry_nonzero_amount", amount_sum |-> amount_sum]
            ELSE IF autocommit /\ TriggerRaises(d1, tx)
            THEN [db |-> d, raised |-> "InternalError",
                  msg |-> "is not balanced", amount_sum |-> amount_sum]
            ELSE CreateEntries(d1, tx, Tail(entries), amount_sum + signed, autocommit)

\* the check after the loop (services.py 146-147)
BalanceCheckFails(amount_sum) == amount_sum # 0

\* services.py 125-149: the INSERT of the transaction row (idempotency_key is
\* unique), the entries and the balance check
InsertTransaction(d, event, tx_type, idempotency_key, reference_model, reference_id, entries, autocommit) ==
    LET d1 == [d EXCEPT !.ledgerTx = Append(@,
                 [event |-> event, tx_type |-> tx_type, status |-> "posted",
                  idempotency_key |-> idempotency_key,
                  reference_model |-> reference_model,
                  reference_id |-> reference_id, created_at |-> today])]
        tx == Len(d1.ledgerTx)
        c == CreateEntries(d1, tx, entries, 0, autocommit)
    IN IF idempotency_key \in IdempotencyKeys(d)
       THEN Raise(d, "IntegrityError", "idempotency_key")
       ELSE IF c.raised # "none" THEN Raise(c.db, c.raised, c.msg)
       ELSE IF BalanceCheckFails(c.amount_sum)
       THEN Raise(c.db, "ValueError", "La transaccion contable no esta balanceada.")
       ELSE Return(c.db, tx)

PostTransaction(d, event, tx_type, idempotency_key, reference_model, reference_id, entries, autocommit) ==
    LET existing == ExistingTx(d, idempotency_key)
    IN IF existing # 0 THEN Return(d, existing)
       ELSE InsertTransaction(d, event, tx_type, idempotency_key, reference_model,
                              reference_id, entries, autocommit)

\* ------------------------------------------------------------ units of work
\* the entry rows a unit of work wrote, whose deferred trigger runs at COMMIT
WrittenEntries(pre, d) == (Len(pre.ledgerEntries) + 1)..Len(d.ledgerEntries)

CommitRaises(pre, d) ==
    \E i \in WrittenEntries(pre, d) : TriggerRaises(d, d.ledgerEntries[i].transaction)

\* @transaction.atomic around a call that started from store pre and ended as r
Atomic_NoRollback(pre, r) == r

Atomic(pre, r) ==
    IF r.raised # "none" THEN Raise(pre, r.raised, r.msg)
    ELSE IF CommitRaises(pre, r.db) THEN Raise(pre, "InternalError", "is not balanced")
    ELSE r

\* events.services.assert_event_writable
EventClosed_Never(event) == FALSE

EventClosed(event) == eventStatus[event] = "closed"

\* services.py 165, 224, 267, 297: if amount <= 0
NonPositive_OnlyNegative(amount) == amount < 0

NonPositive(amount) == amount <= 0

Entry(account, amount) == [account |-> account, amount |-> amount]

\* ------------------------------------------------------------ idempotency keys
TopupOnlineKey(event, topup) == "topup_online:" \o ToString(event) \o ":" \o ToString(topup)
TopupCashKey_PerEvent(event, topup) == "topup_cash:" \o ToString(event)

TopupCashKey(event, topup) == "topup_cash:" \o ToString(event) \o ":" \o ToString(topup)

PurchaseKey(event, reference_model, reference_id) ==
    "purchase:" \o ToString(event) \o ":" \o reference_model \o ":" \o ToString(reference_id)

ExpiryKey(event, user, date) ==
    "expiry:" \o ToString(event) \o ":" \o ToString(user) \o ":" \o ToString(date)

WalletRef(event, user) == AccountRef(event, WalletAccountCode(user))
CashRef(event) == AccountRef(event, PLATFORM_CASH_CODE)
RevenueRef(event) == AccountRef(event, PLATFORM_REVENUE_CODE)
ExpiryRef(event) == AccountRef(event, PLATFORM_EXPIRY_CODE)

\* ------------------------------------------------------------ top-ups
\* TopupRecord.objects.get_or_create(event, source_reference): the row found
TopupWithSource_None(d, event, source_reference) == {}

TopupWithSource(d, event, source_reference) ==
    {i \in 1..Len(d.topupRecords) :
        /\ d.topupRecords[i].event = event
        /\ d.topupRecords[i].source_reference = source_reference}

CreateTopup(d, event, user, channel, amount, source_reference) ==
    [d EXCEPT !.topupRecords = Append(@,
        [event |-> event, user |-> user, channel |-> channel, amount_ucoin |-> amount,
         status |-> "success", source_reference |-> source_reference])]

PostTopup_CacheOnly(d, event, user, amount, tx_type, idempotency_key, topup) ==
    Return(ApplyBalanceDelta(d, event, user, amount), topup)

\* services.py 194-209 and 245-260: accounts, ledger posting, cache
PostTopup(d, event, user, amount, tx_type, idempotency_key, topup) ==
    LET d1 == EnsurePlatformAccounts(d, event)
        d2 == EnsureUserWalletAccount(d1, event, user)
        p == PostTransaction(d2, event, tx_type, idempotency_key, "topup_record", topup,
                             <<Entry(WalletRef(event, user), amount),
                               Entry(CashRef(event), -amount)>>, FALSE)
    IN IF p.raised # "none" THEN p
       ELSE Return(ApplyBalanceDelta(p.db, event, user, amount), topup)

RecordOnlineTopupBody(d, event, user, amount_ucoin, source_reference) ==
    LET amount == Money(amount_ucoin)
        found == TopupWithSource(d, event, source_reference)
        d1 == CreateTopup(d, event, user, "online", amount, source_reference)
        topup == Len(d1.topupRecords)
    IN IF EventClosed(event)
       THEN Raise(d, "EventClosedError", "El evento esta cerrado y en modo solo lectura.")
       ELSE IF NonPositive(amount)
       THEN Raise(d, "ValueError", "El monto de recarga debe ser mayor a cero.")
       ELSE IF source_reference # "" /\ found # {}
       THEN Return(d, CHOOSE i \in found : TRUE)
       ELSE PostTopup(d1, event, user, amount, "topup_online",
                      TopupOnlineKey(event, topup), topup)

GrantCashTopupBody(d, event, client_user, staff_user, amount_ucoin) ==
    LET amount == Money(amount_ucoin)
        d1 == CreateTopup(d, event, client_user, "cash_staff", amount, "")
        topup == Len(d1.topupRecords)
        d2 == [d1 EXCEPT !.creditGrants = Append(@,
                 [event |-> event, client_user |-> client_user,
                  staff_user |-> staff_user, amount_ucoin |-> amount])]
    IN IF EventClosed(event)
       THEN Raise(d, "EventClosedError", "El evento esta cerrado y en modo solo lectura.")
       ELSE IF NonPositive(amount)
       THEN Raise(d, "ValueError", "El monto debe ser mayor a cero.")
       ELSE PostTopup(d2, event, client_user, amount, "topup_cash",
                      TopupCashKey(event, topup), topup)

\* ------------------------------------------------------------ purchases
\* the balance_cache argument of record_purchase_mirror: None, or the locked row
NoCache == [present |-> FALSE, balance_ucoin |-> 0]
LockedCache(balance_ucoin) == [present |-> TRUE, balance_ucoin |-> balance_ucoin]

\* services.py 317-319: the cache is written only when the key was not posted
PurchaseCacheAfter_Floored(balance_ucoin, amount, tx_already_exists) ==
    IF tx_already_exists \/ balance_ucoin < amount THEN balance_ucoin
    ELSE Money(balance_ucoin - amount)

PurchaseCacheAfter_Ungated(balance_ucoin, amount, tx_already_exists) ==
    Money(balance_ucoin - amount)

PurchaseCacheAfter(balance_ucoin, amount, tx_already_exists) ==
    IF tx_already_exists THEN balance_ucoin ELSE Money(balance_ucoin - amount)

RecordPurchaseMirrorBody(d, event, user, amount_ucoin, reference_model, reference_id, balance_cache) ==
    LET amount == Money(amount_ucoin)
        d1 == IF balance_cache.present THEN d ELSE GetBalanceCacheForUpdate(d, event, user)
        wallet_cache == IF balance_cache.present THEN balance_cache.balance_ucoin
                        ELSE Balance(d1, event, user)
        idempotency_key == PurchaseKey(event, reference_model, reference_id)
        tx_already_exists == idempotency_key \in IdempotencyKeys(d1)
        d2 == EnsurePlatformAccounts(d1, event)
        d3 == EnsureUserWalletAccount(d2, event, user)
        p == PostTransaction(d3, event, "purchase", idempotency_key, reference_model,
                             reference_id,
                             <<Entry(WalletRef(event, user), -amount),
                               Entry(RevenueRef(event), amount)>>, FALSE)
        after == PurchaseCacheAfter(wallet_cache, amount, tx_already_exists)
    IN IF EventClosed(event)
       THEN Raise(d, "EventClosedError", "El evento esta cerrado y en modo solo lectura.")
       ELSE IF NonPositive(amount)
       THEN Raise(d, "ValueError", "El monto de compra debe ser mayor a cero.")
       ELSE IF p.raised # "none" THEN p
       ELSE Return(SaveBalance(p.db, event, user, after), after)

\* services.py 271: the sufficient-funds check under the row lock
InsufficientFunds_Unchecked(balance_ucoin, amount) == FALSE

InsufficientFunds(balance_ucoin, amount) == balance_ucoin < amount

RecordPurchaseBody(d, event, user, amount_ucoin, reference_model, reference_id) ==
    LET amount == Money(amount_ucoin)
        d1 == GetBalanceCacheForUpdate(d, event, user)
        wallet_cache == Balance(d1, event, user)
    IN IF EventClosed(event)
       THEN Raise(d, "EventClosedError", "El evento esta cerrado y en modo solo lectura.")
       ELSE IF NonPositive(amount)
       THEN Raise(d, "ValueError", "El monto de compra debe ser mayor a cero.")
       ELSE IF InsufficientFunds(wallet_cache, amount)
       THEN Raise(d1, "ValueError", "Saldo insuficiente.")
       ELSE RecordPurchaseMirrorBody(d1, event, user, amount, reference_model,
                                     reference_id, LockedCache(wallet_cache))

\* ------------------------------------------------------------ expiration
\* services.py 328: nothing to expire
NothingToExpire_OnlyZero(amount) == amount = 0

NothingToExpire_NonNegative(amount) == amount >= 0

NothingToExpire(amount) == amount <= 0

ExpireRemainingBalanceBody(d, event, user, date) ==
    LET d1 == GetBalanceCacheForUpdate(d, event, user)
        amount == Money(Balance(d1, event, user))
        d2 == EnsurePlatformAccounts(d1, event)
        d3 == EnsureUserWalletAccount(d2, event, user)
        p == PostTransaction(d3, event, "expiry", ExpiryKey(event, user, date),
                             "event_campaign", event,
                             <<Entry(WalletRef(event, user), -amount),
                               Entry(ExpiryRef(event), amount)>>, FALSE)
    IN IF EventClosed(event)
       THEN Raise(d, "EventClosedError", "El evento esta cerrado y en modo solo lectura.")
       ELSE IF NothingToExpire(amount) THEN Return(d1, Balance(d1, event, user))
       ELSE IF p.raised # "none" THEN p
       ELSE Return(SaveBalance(p.db, event, user, 0), 0)

\* ------------------------------------------------------------ reconciliation
WalletEntries(d, event, user) ==
    {i \in 1..Len(d.ledgerEntries) :
        /\ d.ledgerTx[d.ledgerEntries[i].transaction].event = event
        /\ d.ledgerEntries[i].account = WalletRef(event, user)}

LedgerBalance(d, event, user) == SumEntries(d, WalletEntries(d, event, user))

ReconcileBalanceFromLedgerBody(d, event, user) ==
    LET d1 == EnsureUserWalletAccount(d, event, user)
        total == LedgerBalance(d1, event, user)
        d2 == SetBalanceRow(d1, event, user, total)
    IN Return(d2, Balance(d2, event, user))

\* ------------------------------------------------------------ backfill_v2
\* backfill_v2.py 115: the source_reference of a legacy Recharge
LegacyRechargeReference_Empty(id) == ""

LegacyRechargeReference(id) == "legacy_recharge:" \o ToString(id)

\* _backfill_recharges: one record_online_topup per Recharge, in id order
RECURSIVE BackfillRecharges(_, _, _)
BackfillRecharges(d, event, recharges) ==
    IF recharges = <<>> THEN Return(d, 0)
    ELSE LET r == RecordOnlineTopupBody(d, event, Head(recharges).user,
                                        Head(recharges).amount,
                                        LegacyRechargeReference(Head(recharges).id))
         IN IF r.raised # "none" THEN r
            ELSE BackfillRecharges(r.db, event, Tail(recharges))

\* _backfill_purchases: one record_purchase_mirror per Purchase, in id order
\* (mirror_legacy_purchase writes the order tables only)
RECURSIVE BackfillPurchases(_, _, _)
BackfillPurchases(d, event, purchases) ==
    IF purchases = <<>> THEN Return(d, 0)
    ELSE LET r == RecordPurchaseMirrorBody(d, event, Head(purchases).user,
                                           Head(purchases).total, "legacy_purchase",
                                           Head(purchases).id, NoCache)
         IN IF r.raised # "none" THEN r
            ELSE BackfillPurchases(r.db, event, Tail(purchases))

\* _backfill_wallet_balances: the cache of each legacy Wallet is overwritten
RECURSIVE BackfillWalletBalances(_, _, _)
BackfillWalletBalances(d, event, wallets) ==
    IF wallets = <<>> THEN Return(d, 0)
    ELSE BackfillWalletBalances(
             SetBalanceRow(d, event, Head(wallets).user, Head(wallets).balance),
             event, Tail(wallets))

\* Command.handle, the ledger part: recharges, purchases, wallet balances
BackfillBody(d, event, data) ==
    LET r == BackfillRecharges(d, event, data.recharges)
        p == BackfillPurchases(r.db, event, data.purchases)
    IN IF r.raised # "none" THEN r
       ELSE IF p.raised # "none" THEN p
       ELSE BackfillWalletBalances(p.db, event, data.wallets)

\* ------------------------------------------------------------ close_event
\* close_event.py 25-27: expire every cache row of the event with balance > 0,
\* in the order of WalletBalanceCache.Meta.ordering
RECURSIVE ExpireAll(_, _, _, _)
ExpireAll(d, event, users, date) ==
    IF users = {} THEN Return(d, 0)
    ELSE LET user == CHOOSE u \in users : \A v \in users : u <= v
             r == ExpireRemainingBalanceBody(d, event, user, date)
         IN IF r.raised # "none" THEN r
            ELSE ExpireAll(r.db, event, users \ {user}, date)

PositiveBalances_None(d, event) == {}

PositiveBalances(d, event) ==
    {user \in Users : HasCacheRow(d, event, user) /\ Balance(d, event, user) > 0}

\* ------------------------------------------------------------ the calls
\* a request slot that serves no call, and the locals of a call that just began
NoRequest ==
    [op |-> "none", event |-> 0, user |-> 0, amount_ucoin |-> 0, tx_event |-> 0,
     tx_type |-> "", idempotency_key |-> "", reference_model |-> "", reference_id |-> 0,
     entries |-> <<>>, autocommit |-> FALSE]

NoLocal == [balance_ucoin |-> 0, tx_already_exists |-> FALSE, existing |-> 0,
            inserted |-> FALSE, locks |-> {}, cart_items |-> <<>>,
            stall_products |-> <<>>, order_number |-> 0]

NoCall == [op |-> "none", event |-> 0, user |-> 0, amount |-> 0, replay |-> FALSE,
           raised |-> "none", msg |-> ""]

\* ------------------------------------------------------------ the catalog and the roles
\* the StallProduct rows of the event: two products of stall 1, one with finite
\* and one with unlimited stock, and two of stall 2, one of them free
Products == {1, 2, 3, 4}
InitialStallProducts ==
    (1 :> [stall |-> 1, price_ucoin |-> 10, stock_mode |-> "finite", stock_qty |-> 2]) @@
    (2 :> [stall |-> 1, price_ucoin |-> 20, stock_mode |-> "unlimited", stock_qty |-> 0]) @@
    (3 :> [stall |-> 2, price_ucoin |-> 0, stock_mode |-> "finite", stock_qty |-> 1]) @@
    (4 :> [stall |-> 2, price_ucoin |-> 10, stock_mode |-> "unlimited", stock_qty |-> 0])

\* events.services.PROFILE_GROUP_NAMES
PROFILE_GROUP_NAMES == {"cliente", "vendedor", "staff"}
\* the group names a sync_user_roles request may carry
GroupNameInputs == PROFILE_GROUP_NAMES \cup {"admin", ""}
\* User.is_superuser
Superusers == {2}
\* every user is a cliente of every event (ensure_user_client_membership), and
\* user 1 is staff
InitialUserGroups ==
    {<<event, user, "cliente">> : event \in Events, user \in Users}
        \cup {<<event, 1, "staff">> : event \in Events}

Init ==
    /\ vendor \in Vendors
    /\ eventStatus = [event \in Events |-> "active"]
    /\ accounts = {}
    /\ ledgerTx = <<>>
    /\ ledgerEntries = <<>>
    /\ walletCache = <<>>
    /\ topupRecords = <<>>
    /\ creditGrants = <<>>
    /\ today = 1
    /\ last = NoCall
    /\ pc = [p \in Procs |-> "idle"]
    /\ call = [p \in Procs |-> NoRequest]
    /\ local = [p \in Procs |-> NoLocal]
    /\ rowLock = [w \in Events \X Users |-> 0]
    /\ stallProducts = InitialStallProducts
    /\ cartItems = <<>>
    /\ stockMovements = <<>>
    /\ salesOrders = <<>>
    /\ orderQrTokens = <<>>
    /\ deliveryLogs = <<>>
    /\ now = 0
    /\ userGroups = InitialUserGroups
    /\ staffAuditLogs = <<>>

\* one call, ended as r: the store it leaves and the record of the call; replay
\* says that the call's idempotency key or source_reference was already stored
Call(op, event, user, amount, replay, result) ==
    \E r \in {result} :
        /\ Len(r.db.topupRecords) <= MaxTopups
        /\ Store(r.db)
        /\ last' = [op |-> op, event |-> event, user |-> user, amount |-> amount,
                    replay |-> replay, raised |-> r.raised, msg |-> r.msg]
        /\ UNCHANGED requestVars

RecordOnlineTopup(event, user) ==
    \E amount_ucoin \in AmountInputs, source_reference \in SourceRefs :
        /\ Call("record_online_topup", event, user, Money(amount_ucoin),
                source_reference # "" /\ TopupWithSource(DB, event, source_reference) # {},
                Atomic(DB, RecordOnlineTopupBody(DB, event, user, amount_ucoin,
                                                 source_reference)))
        /\ UNCHANGED <<vendor, eventStatus, today, commerceVars, roleVars>>

GrantCashTopup(event, client_user) ==
    \E staff_user \in StaffUsers, amount_ucoin \in AmountInputs :
        /\ Call("grant_cash_topup", event, client_user, Money(amount_ucoin), FALSE,
                Atomic(DB, GrantCashTopupBody(DB, event, client_user, staff_user,
                                              amount_ucoin)))
        /\ UNCHANGED <<vendor, eventStatus, today, commerceVars, roleVars>>

RecordPurchase(event, user) ==
    \E amount_ucoin \in AmountInputs, reference_model \in RefModels, reference_id \in RefIds :
        /\ Call("record_purchase", event, user, Money(amount_ucoin),
                PurchaseKey(event, reference_model, reference_id) \in IdempotencyKeys(DB),
                Atomic(DB, RecordPurchaseBody(DB, event, user, amount_ucoin,
                                              reference_model, reference_id)))
        /\ UNCHANGED <<vendor, eventStatus, today, commerceVars, roleVars>>

\* called as backfill_v2 and the tests call it, inside the caller's atomic block
\* (select_for_update() needs one)
RecordPurchaseMirror(event, user) ==
    \E amount_ucoin \in AmountInputs, reference_model \in RefModels, reference_id \in RefIds :
        /\ Call("record_purchase_mirror", event, user, Money(amount_ucoin),
                PurchaseKey(event, reference_model, reference_id) \in IdempotencyKeys(DB),
                Atomic(DB, RecordPurchaseMirrorBody(DB, event, user, amount_ucoin,
                                                    reference_model, reference_id, NoCache)))
        /\ UNCHANGED <<vendor, eventStatus, today, commerceVars, roleVars>>

ExpireRemainingBalance(event, user) ==
    /\ Call("expire_remaining_balance", event, user, 0,
            ExpiryKey(event, user, today) \in IdempotencyKeys(DB),
            Atomic(DB, ExpireRemainingBalanceBody(DB, event, user, today)))
    /\ UNCHANGED <<vendor, eventStatus, today, commerceVars, roleVars>>

ReconcileBalanceFromLedger(event, user) ==
    /\ Call("reconcile_balance_from_ledger", event, user, 0, FALSE,
            ReconcileBalanceFromLedgerBody(DB, event, user))
    /\ UNCHANGED <<vendor, eventStatus, today, commerceVars, roleVars>>

SetBalance(event, user) ==
    \E balance \in BalanceInputs :
        /\ Call("set_balance", event, user, Money(balance), FALSE,
                Return(SetBalanceRow(DB, event, user, balance), Money(balance)))
        /\ UNCHANGED <<vendor, eventStatus, today, commerceVars, roleVars>>

\* ensure_account and ensure_user_wallet_account called by themselves
EnsureAccountCall(event) ==
    \E code \in AccountCodeInputs, name \in AccountNameInputs,
       account_type \in AccountTypeInputs, owner_user \in {0} \cup Users :
        /\ Call("ensure_account", event, owner_user, 0,
                \E a \in accounts : a.event = event /\ a.code = code,
                Return(EnsureAccount(DB, event, code, name, account_type, owner_user), 0))
        /\ UNCHANGED <<vendor, eventStatus, today, commerceVars, roleVars>>

EnsurePlatformAccountsCall(event) ==
    /\ Call("ensure_platform_accounts", event, 0, 0,
            \E a \in accounts : a.event = event /\ a.code = PLATFORM_EXPIRY_CODE,
            Return(EnsurePlatformAccounts(DB, event), 0))
    /\ UNCHANGED <<vendor, eventStatus, today, commerceVars, roleVars>>

EnsureUserWalletAccountCall(event, user) ==
    /\ Call("ensure_user_wallet_account", event, user, 0,
            \E a \in accounts : a.event = event /\ a.code = WalletAccountCode(user),
            Return(EnsureUserWalletAccount(DB, event, user), 0))
    /\ UNCHANGED <<vendor, eventStatus, today, commerceVars, roleVars>>

\* the entries of a direct post_transaction call: wallet and platform cash in turn
DirectEntries(event, user, amounts) ==
    [i \in 1..Len(amounts) |->
        Entry(IF i % 2 = 1 THEN WalletRef(event, user) ELSE CashRef(event), amounts[i])]

\* post_transaction called by itself: it opens no atomic block of its own, so it
\* runs in the caller's (autocommit = FALSE) or statement by statement
PostTransactionResult(d, tx_event, idempotency_key, entries, autocommit) ==
    IF autocommit
    THEN PostTransaction(d, tx_event, "adjustment", idempotency_key, "", 0, entries, TRUE)
    ELSE Atomic(d, PostTransaction(d, tx_event, "adjustment", idempotency_key, "", 0,
                                   entries, FALSE))

\* the rows of accounts that the entries name exist (LedgerEntry.account)
AccountsExist(d, entries) ==
    \A i \in 1..Len(entries) :
        \E a \in d.accounts : AccountRef(a.event, a.code) = entries[i].account

DirectTx(d) == {i \in 1..Len(d.ledgerTx) : d.ledgerTx[i].tx_type = "adjustment"}

PostTransactionCall(event, user) ==
    \E tx_event \in Events, idempotency_key \in DirectKeys, amounts \in DirectAmounts,
       autocommit \in BOOLEAN :
        \E r \in {PostTransactionResult(DB, tx_event, idempotency_key,
                                        DirectEntries(event, user, amounts), autocommit)} :
           /\ AccountsExist(DB, DirectEntries(event, user, amounts))
           /\ Cardinality(DirectTx(r.db)) <= MaxDirectTx
           /\ Call("post_transaction", tx_event, user, 0,
                   idempotency_key \in IdempotencyKeys(DB), r)
           /\ UNCHANGED <<vendor, eventStatus, today, commerceVars, roleVars>>

\* a backfill_v2 run over the legacy tables data, in the atomic block of handle
BackfillV2(event) ==
    \E data \in LegacyData :
        /\ Call("backfill_v2", event, 0, 0,
                \E i \in 1..Len(ledgerTx) : ledgerTx[i].reference_model = "legacy_purchase",
                Atomic(DB, BackfillBody(DB, event, data)))
        /\ UNCHANGED <<vendor, eventStatus, today, commerceVars, roleVars>>

CloseEvent(event) ==
    \E r \in {IF EventClosed(event) THEN Return(DB, 0)
              ELSE Atomic(DB, ExpireAll(DB, event, PositiveBalances(DB, event), today))} :
       /\ Call("close_event", event, 0, 0, FALSE, r)
       /\ eventStatus' = IF r.raised = "none"
                         THEN [eventStatus EXCEPT ![event] = "closed"]
                         ELSE eventStatus
       /\ UNCHANGED <<vendor, today, commerceVars, roleVars>>

NextDay ==
    /\ today + 1 \in Days
    /\ today' = today + 1
    /\ last' = [NoCall EXCEPT !.op = "next_day"]
    /\ UNCHANGED <<vendor, eventStatus, accounts, ledgerTx, ledgerEntries, walletCache,
                   topupRecords, creditGrants, commerceVars, roleVars>>
    /\ UNCHANGED requestVars

\* ------------------------------------------------------------ concurrent requests
\* Requests run the calls statement by statement against one database at READ
\* COMMITTED: a statement reads what is committed, the rows a request inserted
\* become visible at its COMMIT, and its row lock is released there.  INSERTs of
\* rows no other request can name (the TopupRecord and its ledger rows, whose
\* key holds the fresh id) take effect at the COMMIT.
storeVars == <<accounts, ledgerTx, ledgerEntries, walletCache, topupRecords, creditGrants>>
fixedVars == <<vendor, eventStatus, today, commerceVars, roleVars>>

InFlight == {q \in Procs : pc[q] # "idle"}

\* a request slot is free
CanBegin(p) == pc[p] = "idle"

\* a run begins calls while the ledger has room for those in flight
Room(max_tx) == Len(ledgerTx) + Cardinality(InFlight) < max_tx

Begin(p, request, at) ==
    /\ call' = [call EXCEPT ![p] = request]
    /\ local' = [local EXCEPT ![p] = NoLocal]
    /\ pc' = [pc EXCEPT ![p] = at]
    /\ UNCHANGED <<last, rowLock>>

\* a call that raised while validating its arguments
Reject(op, event, user, amount, raised, msg) ==
    /\ last' = [op |-> op, event |-> event, user |-> user, amount |-> amount,
                replay |-> FALSE, raised |-> raised, msg |-> msg]
    /\ UNCHANGED requestVars

\* the call of request p ends: its locks are released with its transaction
Finish(p, replay, raised, msg) ==
    /\ last' = [op |-> call[p].op, event |-> call[p].event, user |-> call[p].user,
                amount |-> Money(call[p].amount_ucoin), replay |-> replay,
                raised |-> raised, msg |-> msg]
    /\ pc' = [pc EXCEPT ![p] = "idle"]
    /\ call' = [call EXCEPT ![p] = NoRequest]
    /\ local' = [local EXCEPT ![p] = NoLocal]
    /\ rowLock' = [w \in DOMAIN rowLock |-> IF rowLock[w] = p THEN 0 ELSE rowLock[w]]

\* record_purchase, services.py 264-268
BeginPurchase(p, event, user) ==
    \E amount_ucoin \in AmountInputs, reference_model \in RefModels, reference_id \in RefIds :
        /\ CanBegin(p)
        /\ IF EventClosed(event)
           THEN Reject("record_purchase", event, user, Money(amount_ucoin),
                       "EventClosedError", "El evento esta cerrado y en modo solo lectura.")
           ELSE IF Money(amount_ucoin) <= 0
           THEN Reject("record_purchase", event, user, Money(amount_ucoin),
                       "ValueError", "El monto de compra debe ser mayor a cero.")
           ELSE Begin(p, [NoRequest EXCEPT
                            !.op = "record_purchase", !.event = event, !.user = user,
                            !.amount_ucoin = amount_ucoin, !.tx_event = event,
                            !.tx_type = "purchase",
                            !.idempotency_key = PurchaseKey(event, reference_model, reference_id),
                            !.reference_model = reference_model,
                            !.reference_id = reference_id,
                            !.entries = <<Entry(WalletRef(event, user), -Money(amount_ucoin)),
                                          Entry(RevenueRef(event), Money(amount_ucoin))>>],
                      "lock")
        /\ UNCHANGED storeVars
        /\ UNCHANGED fixedVars

\* record_online_topup without source_reference, services.py 163-166
BeginTopup(p, event, user) ==
    \E amount_ucoin \in AmountInputs :
        /\ CanBegin(p)
        /\ Len(topupRecords)
             + Cardinality({q \in InFlight : call[q].op = "record_online_topup"}) < MaxTopups
        /\ IF EventClosed(event)
           THEN Reject("record_online_topup", event, user, Money(amount_ucoin),
                       "EventClosedError", "El evento esta cerrado y en modo solo lectura.")
           ELSE IF Money(amount_ucoin) <= 0
           THEN Reject("record_online_topup", event, user, Money(amount_ucoin),
                       "ValueError", "El monto de recarga debe ser mayor a cero.")
           ELSE Begin(p, [NoRequest EXCEPT
                            !.op = "record_online_topup", !.event = event, !.user = user,
                            !.amount_ucoin = amount_ucoin, !.tx_event = event,
                            !.tx_type = "topup_online"],
                      "lock")
        /\ UNCHANGED storeVars
        /\ UNCHANGED fixedVars

\* post_transaction called by itself, in the caller's atomic block or in autocommit
BeginPost(p, event, user) ==
    \E tx_event \in Events, idempotency_key \in DirectKeys, amounts \in DirectAmounts,
       autocommit \in BOOLEAN :
        /\ CanBegin(p)
        /\ AccountsExist(DB, DirectEntries(event, user, amounts))
        /\ Cardinality(DirectTx(DB)) < MaxDirectTx
        /\ Begin(p, [NoRequest EXCEPT
                       !.op = "post_transaction", !.event = tx_event, !.user = user,
                       !.tx_event = tx_event, !.tx_type = "adjustment",
                       !.idempotency_key = idempotency_key,
                       !.entries = DirectEntries(event, user, amounts),
                       !.autocommit = autocommit],
                 "check")
        /\ UNCHANGED storeVars
        /\ UNCHANGED fixedVars

\* SELECT ... FOR UPDATE on a row: it waits while another request holds the row
LockFree_Shared(holder, p) == TRUE

LockFree(holder, p) == holder \in {0, p}

\* get_balance_cache_for_update (services.py 270, and 104 in apply_balance_delta)
\* and, for a purchase, the funds check of line 271
Lock(p) ==
    LET event == call[p].event
        user == call[p].user
        balance_ucoin == GetBalance(DB, event, user)
    IN /\ pc[p] = "lock"
       /\ LockFree(rowLock[<<event, user>>], p)
       /\ IF call[p].op = "record_purchase"
             /\ InsufficientFunds(balance_ucoin, Money(call[p].amount_ucoin))
          THEN Finish(p, FALSE, "ValueError", "Saldo insuficiente.")
          ELSE /\ rowLock' = [rowLock EXCEPT ![<<event, user>>] = p]
               /\ local' = [local EXCEPT ![p].balance_ucoin = balance_ucoin]
               /\ pc' = [pc EXCEPT ![p] = IF call[p].op = "record_purchase"
                                          THEN "exists" ELSE "commit"]
               /\ UNCHANGED <<call, last>>
       /\ UNCHANGED storeVars
       /\ UNCHANGED fixedVars

\* record_purchase_mirror, services.py 301: tx_already_exists
Exists(p) ==
    /\ pc[p] = "exists"
    /\ local' = [local EXCEPT ![p].tx_already_exists =
                    call[p].idempotency_key \in IdempotencyKeys(DB)]
    /\ pc' = [pc EXCEPT ![p] = "check"]
    /\ UNCHANGED <<call, last, rowLock>>
    /\ UNCHANGED storeVars
    /\ UNCHANGED fixedVars

\* post_transaction, services.py 121-123: the existence check
Check(p) ==
    LET existing == ExistingTx(DB, call[p].idempotency_key)
    IN /\ pc[p] = "check"
       /\ IF existing # 0 /\ call[p].op = "post_transaction"
          THEN Finish(p, TRUE, "none", "")
          ELSE /\ local' = [local EXCEPT ![p].existing = existing]
               /\ pc' = [pc EXCEPT ![p] = IF existing # 0 THEN "commit" ELSE "insert"]
               /\ UNCHANGED <<call, last, rowLock>>
       /\ UNCHANGED storeVars
       /\ UNCHANGED fixedVars

\* the unique index on idempotency_key makes an INSERT wait for a request that
\* inserted the same key and has not committed yet
KeyInserting(p, idempotency_key) ==
    \E q \in Procs \ {p} : local[q].inserted /\ call[q].idempotency_key = idempotency_key

\* post_transaction, services.py 125-149, of request p against store d
InsertOf(p, d, autocommit) ==
    InsertTransaction(d, call[p].tx_event, call[p].tx_type, call[p].idempotency_key,
                      call[p].reference_model, call[p].reference_id, call[p].entries,
                      autocommit)

Insert(p) ==
    /\ pc[p] = "insert"
    /\ ~KeyInserting(p, call[p].idempotency_key)
    /\ \E r \in {InsertOf(p, DB, call[p].autocommit)} :
          IF call[p].autocommit
          THEN /\ Store(r.db)
               /\ Finish(p, FALSE, r.raised, r.msg)
          ELSE /\ IF r.raised # "none"
                  THEN Finish(p, FALSE, r.raised, r.msg)
                  ELSE /\ local' = [local EXCEPT ![p].inserted = TRUE]
                       /\ pc' = [pc EXCEPT ![p] = "commit"]
                       /\ UNCHANGED <<call, last, rowLock>>
               /\ UNCHANGED storeVars
    /\ UNCHANGED fixedVars

\* what request p commits: record_purchase (services.py 303-320 with the balance
\* read under the lock), record_online_topup (168-209 with the balance read in
\* apply_balance_delta), post_transaction in its caller's block
Committed(p) ==
    LET event == call[p].event
        user == call[p].user
        amount == Money(call[p].amount_ucoin)
        d1 == EnsureUserWalletAccount(
                  EnsurePlatformAccounts(GetBalanceCacheForUpdate(DB, event, user), event),
                  event, user)
        d2 == IF local[p].inserted THEN InsertOf(p, d1, FALSE).db ELSE d1
        after == PurchaseCacheAfter(local[p].balance_ucoin, amount,
                                    local[p].tx_already_exists)
        topup == RecordOnlineTopupBody(DB, event, user, call[p].amount_ucoin, "")
    IN IF call[p].op = "record_purchase"
       THEN Atomic(DB, Return(SaveBalance(d2, event, user, after), after))
       ELSE IF call[p].op = "record_online_topup"
       THEN Atomic(DB, IF topup.raised # "none" THEN topup
                       ELSE Return(SaveBalance(topup.db, event, user,
                                               Money(local[p].balance_ucoin + Money(amount))),
                                   topup.ret))
       ELSE Atomic(DB, InsertOf(p, DB, FALSE))

Commit(p) ==
    /\ pc[p] = "commit"
    /\ \E r \in {Committed(p)} :
          /\ Store(r.db)
          /\ Finish(p, local[p].tx_already_exists \/ local[p].existing # 0, r.raised, r.msg)
    /\ UNCHANGED fixedVars

\* ------------------------------------------------------------ concurrent reconcile
\* reconcile_balance_from_ledger opens no atomic block and takes no row lock:
\* each of its statements commits by itself
BeginReconcile(p, event, user) ==
    /\ CanBegin(p)
    /\ Begin(p, [NoRequest EXCEPT !.op = "reconcile_balance_from_ledger",
                                  !.event = event, !.user = user, !.autocommit = TRUE],
             "sum")
    /\ UNCHANGED storeVars
    /\ UNCHANGED fixedVars

\* services.py 351-357: ensure_user_wallet_account, then the aggregate over the
\* committed entries
Sum(p) ==
    LET d1 == EnsureUserWalletAccount(DB, call[p].event, call[p].user)
    IN /\ pc[p] = "sum"
       /\ Store(d1)
       /\ local' = [local EXCEPT ![p].balance_ucoin =
                       LedgerBalance(d1, call[p].event, call[p].user)]
       /\ pc' = [pc EXCEPT ![p] = "set"]
       /\ UNCHANGED <<call, last, rowLock>>
       /\ UNCHANGED fixedVars

\* services.py 358 and 95-100: set_balance writes the total that was read; its
\* INSERT or UPDATE of the row waits for a transaction that holds the row
Set(p) ==
    LET event == call[p].event
        user == call[p].user
    IN /\ pc[p] = "set"
       /\ LockFree(rowLock[<<event, user>>], p)
       /\ Store(SetBalanceRow(DB, event, user, local[p].balance_ucoin))
       /\ Finish(p, FALSE, "none", "")
       /\ UNCHANGED fixedVars

\* ------------------------------------------------------------ specifications
\* the wallets the calls of a run are made on
SpecEvents == {1}
SpecUsers == {1}

\* a run stops posting when the ledger holds max_tx transactions
Cap(max_tx) == Len(ledgerTx') <= max_tx

\* the service calls on the wallets of the run, and the passing of days
NextWallet ==
    \/ \E event \in SpecEvents, user \in SpecUsers :
        \/ RecordOnlineTopup(event, user) /\ Cap(MaxTx)
        \/ GrantCashTopup(event, user) /\ Cap(MaxTx)
        \/ RecordPurchase(event, user) /\ Cap(MaxTx)
        \/ RecordPurchaseMirror(event, user) /\ Cap(MaxTx)
        \/ ExpireRemainingBalance(event, user) /\ Cap(MaxTx)
    \/ NextDay

SpecWallet == Init /\ [][NextWallet]_vars

\* the service calls and the close_event command
NextWalletClose ==
    \/ NextWallet
    \/ \E event \in SpecEvents : CloseEvent(event) /\ Cap(MaxTx)

SpecWalletClose == Init /\ [][NextWalletClose]_vars

\* the service calls, set_balance and reconcile_balance_from_ledger, one at a time
NextReconcile ==
    \/ NextWallet
    \/ \E event \in SpecEvents, user \in SpecUsers :
        \/ SetBalance(event, user)
        \/ ReconcileBalanceFromLedger(event, user)

SpecReconcile == Init /\ [][NextReconcile]_vars

\* the account helpers called in any order: ensure_account with the caller's
\* values, the platform accounts, and the wallet accounts of any event and user
NextAccounts ==
    \/ \E event \in SpecEvents : EnsureAccountCall(event)
    \/ \E event \in SpecEvents : EnsurePlatformAccountsCall(event)
    \/ \E event \in Events, user \in Users : EnsureUserWalletAccountCall(event, user)

SpecAccounts == Init /\ [][NextAccounts]_vars

\* backfill_v2 runs, with top-ups, purchases and the closing of the event
\* between them
NextBackfill ==
    \E event \in SpecEvents :
        \/ BackfillV2(event) /\ Cap(MaxBackfillTx)
        \/ \E user \in SpecUsers : RecordOnlineTopup(event, user) /\ Cap(MaxTx)
        \/ \E user \in SpecUsers : RecordPurchase(event, user) /\ Cap(MaxTx)
        \/ CloseEvent(event) /\ Cap(MaxBackfillTx)

SpecBackfill == Init /\ [][NextBackfill]_vars

\* top-ups, purchases and expirations only, on a longer ledger
NextTopupPurchaseExpire ==
    \/ \E event \in SpecEvents, user \in SpecUsers :
        \/ RecordOnlineTopup(event, user) /\ Cap(MaxLongTx)
        \/ GrantCashTopup(event, user) /\ Cap(MaxLongTx)
        \/ RecordPurchase(event, user) /\ Cap(MaxLongTx)
        \/ ExpireRemainingBalance(event, user) /\ Cap(MaxLongTx)
    \/ NextDay

SpecTopupPurchaseExpire == Init /\ [][NextTopupPurchaseExpire]_vars

\* the service calls and post_transaction called directly
Next ==
    \E event \in SpecEvents, user \in SpecUsers :
        \/ RecordOnlineTopup(event, user) /\ Cap(MaxTx)
        \/ GrantCashTopup(event, user) /\ Cap(MaxTx)
        \/ RecordPurchase(event, user) /\ Cap(MaxTx)
        \/ RecordPurchaseMirror(event, user) /\ Cap(MaxTx)
        \/ ExpireRemainingBalance(event, user) /\ Cap(MaxTx)
        \/ PostTransactionCall(event, user) /\ Cap(MaxTx)

Spec == Init /\ [][Next]_vars

\* concurrent top-ups and purchases on the wallets of the run
NextConcurrentWallet ==
    \E p \in Procs :
        \/ \E event \in SpecEvents, user \in SpecUsers :
              BeginPurchase(p, event, user) /\ Room(MaxConcurrentTx)
        \/ \E event \in SpecEvents, user \in SpecUsers :
              BeginTopup(p, event, user) /\ Room(MaxConcurrentTx)
        \/ Lock(p)
        \/ Exists(p)
        \/ Check(p)
        \/ Insert(p)
        \/ Commit(p)

SpecConcurrentWallet == Init /\ [][NextConcurrentWallet]_vars

\* the same with concurrent direct post_transaction calls
NextConcurrent ==
    \E p \in Procs :
        \/ \E event \in SpecEvents, user \in SpecUsers :
              BeginPurchase(p, event, user) /\ Room(MaxLongTx)
        \/ \E event \in SpecEvents, user \in SpecUsers :
              BeginTopup(p, event, user) /\ Room(MaxLongTx)
        \/ \E event \in SpecEvents, user \in SpecUsers :
              BeginPost(p, event, user) /\ Room(MaxLongTx)
        \/ Lock(p)
        \/ Exists(p)
        \/ Check(p)
        \/ Insert(p)
        \/ Commit(p)

SpecConcurrent == Init /\ [][NextConcurrent]_vars

\* top-ups and purchases with reconcile_balance_from_ledger run beside them
NextConcurrentReconcile ==
    \E p \in Procs :
        \/ \E event \in SpecEvents, user \in SpecUsers :
              BeginPurchase(p, event, user) /\ Room(MaxLongTx)
        \/ \E event \in SpecEvents, user \in SpecUsers :
              BeginTopup(p, event, user) /\ Room(MaxLongTx)
        \/ \E event \in SpecEvents, user \in SpecUsers : BeginReconcile(p, event, user)
        \/ Lock(p)
        \/ Exists(p)
        \/ Check(p)
        \/ Insert(p)
        \/ Commit(p)
        \/ Sum(p)
        \/ Set(p)

SpecConcurrentReconcile == Init /\ [][NextConcurrentReconcile]_vars

\* ------------------------------------------------------------ properties
\* the inputs a direct post_transaction call is made with in state DB
DirectCalls ==
    {c \in [user : SpecUsers, entry_event : SpecEvents, tx_event : Events,
            idempotency_key : DirectKeys, amounts : DirectAmounts, autocommit : BOOLEAN] :
        AccountsExist(DB, DirectEntries(c.entry_event, c.user, c.amounts))}

DirectResult(c) ==
    PostTransactionResult(DB, c.tx_event, c.idempotency_key,
                          DirectEntries(c.entry_event, c.user, c.amounts), c.autocommit)

\* the sum post_transaction computes over the quantized amounts
QuantizedSum(amounts) == SumSeq([i \in 1..Len(amounts) |-> Money(amounts[i])])

\* C1: after any sequence of service calls and direct post_transaction calls,
\* the entries of every stored LedgerTransaction sum to 0.00
C1_EveryTransactionBalanced ==
    \A tx \in 1..Len(ledgerTx) : TxBalance(DB, tx) = 0

\* C2: a post_transaction call with a new key whose quantized entries do not sum
\* to zero raises, and afterwards the store holds neither a transaction with
\* that key nor any of the entries supplied
C2_UnbalancedPostLeavesNothing ==
    \A c \in DirectCalls :
        LET r == DirectResult(c)
        IN (c.idempotency_key \notin IdempotencyKeys(DB) /\ QuantizedSum(c.amounts) # 0)
           => /\ r.raised # "none"
              /\ c.idempotency_key \notin IdempotencyKeys(r.db)
              /\ r.db.ledgerEntries = ledgerEntries

\* C3: a post_transaction call whose key is already posted returns the stored
\* transaction with that key, whatever its entries, type or event, and leaves
\* every table as it was
C3_ReplayReturnsFirst ==
    \A c \in DirectCalls :
        LET r == DirectResult(c)
        IN c.idempotency_key \in IdempotencyKeys(DB)
           => /\ r.raised = "none"
              /\ r.ret \in TxWithKey(DB, c.idempotency_key)
              /\ r.db = DB

\* a replayed direct call that named another event than the stored transaction
C3_Witness ==
    /\ last.op = "post_transaction"
    /\ last.replay
    /\ last.raised = "none"
    /\ \E key \in DirectKeys :
          /\ TxWithKey(DB, key) # {}
          /\ \A i \in TxWithKey(DB, key) : ledgerTx[i].event # last.event

\* C4: after any sequence of top-ups, purchases and expirations from the empty
\* ledger, the cached balance of every wallet equals the sum of the ledger
\* entries on its wallet account
C4_CacheEqualsLedger ==
    \A event \in Events, user \in Users :
        GetBalance(DB, event, user) = LedgerBalance(DB, event, user)

\* the calls record_purchase and record_purchase_mirror are made with in state DB
PurchaseCalls ==
    [event : SpecEvents, user : SpecUsers, amount_ucoin : AmountInputs,
     reference_model : RefModels, reference_id : RefIds]

RecordPurchaseResult(d, c) ==
    Atomic(d, RecordPurchaseBody(d, c.event, c.user, c.amount_ucoin,
                                 c.reference_model, c.reference_id))

RecordPurchaseMirrorResult(d, c) ==
    Atomic(d, RecordPurchaseMirrorBody(d, c.event, c.user, c.amount_ucoin,
                                       c.reference_model, c.reference_id, NoCache))

\* the purchase transactions that charged amount to the wallet of the call
PurchasesOf(d, c) ==
    {tx \in TxWithKey(d, PurchaseKey(c.event, c.reference_model, c.reference_id)) :
        /\ d.ledgerTx[tx].tx_type = "purchase"
        /\ \E i \in EntriesOfTx(d, tx) :
              /\ d.ledgerEntries[i].account = WalletRef(c.event, c.user)
              /\ d.ledgerEntries[i].amount_mxn_signed = -Money(c.amount_ucoin)}

\* C5: a purchase posted once for (event, reference_model, reference_id), user
\* and amount is the only transaction of its key, and a second record_purchase
\* or record_purchase_mirror call with them changes neither cache nor ledger;
\* the first call charges the cache once
C5_ReplayedPurchaseChargesOnce ==
    \A c \in PurchaseCalls :
        LET key == PurchaseKey(c.event, c.reference_model, c.reference_id)
            mirror == RecordPurchaseMirrorResult(DB, c)
            again == RecordPurchaseMirrorResult(mirror.db, c)
            bought == RecordPurchaseResult(mirror.db, c)
        IN /\ PurchasesOf(DB, c) # {}
              => /\ Cardinality(TxWithKey(DB, key)) = 1
                 /\ mirror.raised = "none" /\ mirror.db = DB
                 /\ RecordPurchaseResult(DB, c).db = DB
           /\ (key \notin IdempotencyKeys(DB) /\ mirror.raised = "none")
              => /\ GetBalance(mirror.db, c.event, c.user)
                      = GetBalance(DB, c.event, c.user) - Money(c.amount_ucoin)
                 /\ Cardinality(PurchasesOf(mirror.db, c)) = 1
                 /\ again.raised = "none" /\ again.db = mirror.db
                 /\ bought.db = mirror.db

\* a second call for a posted purchase has returned
C5_Witness ==
    /\ last.op \in {"record_purchase", "record_purchase_mirror"}
    /\ last.replay
    /\ last.raised = "none"
    /\ \E c \in PurchaseCalls :
          /\ c.event = last.event /\ c.user = last.user
          /\ Money(c.amount_ucoin) = last.amount
          /\ PurchasesOf(DB, c) # {}

\* C7: a record_purchase call for more than the cached balance raises
\* "Saldo insuficiente." before any ledger write, and leaves the cache and the
\* ledger as they were
C7_RejectionChangesNothing ==
    \A c \in PurchaseCalls :
        LET body == RecordPurchaseBody(DB, c.event, c.user, c.amount_ucoin,
                                       c.reference_model, c.reference_id)
        IN (/\ ~EventClosed(c.event)
            /\ Money(c.amount_ucoin) > 0
            /\ Money(c.amount_ucoin) > GetBalance(DB, c.event, c.user))
           => /\ body.raised = "ValueError" /\ body.msg = "Saldo insuficiente."
              /\ body.db.ledgerTx = ledgerTx /\ body.db.ledgerEntries = ledgerEntries
              /\ RecordPurchaseResult(DB, c).raised = "ValueError"
              /\ RecordPurchaseResult(DB, c).db = DB

\* a purchase for more than a funded wallet holds was rejected
C7_Witness ==
    /\ last.op = "record_purchase"
    /\ last.msg = "Saldo insuficiente."
    /\ HasCacheRow(DB, last.event, last.user)
    /\ Balance(DB, last.event, last.user) > 0
    /\ last.amount > Balance(DB, last.event, last.user)

\* the purchase request p is at its COMMIT, and the call returns
PurchaseReturns(p) ==
    /\ pc[p] = "commit"
    /\ call[p].op = "record_purchase"
    /\ pc'[p] = "idle"
    /\ last'.raised = "none"

NoNegativeBalance(cache) == \A w \in DOMAIN cache : cache[w] >= 0

\* C6 as stated: record_purchase returns only when the amount is at most the
\* balance read under the row lock, and then leaves balance - amount; no
\* interleaving of record_purchase and top-up requests makes a cached balance
\* negative
C6_SuccessLeavesDifference ==
    [][/\ \A p \in Procs :
            PurchaseReturns(p)
            => /\ Money(call[p].amount_ucoin) <= local[p].balance_ucoin
               /\ local[p].balance_ucoin = GetBalance(DB, call[p].event, call[p].user)
               /\ walletCache'[<<call[p].event, call[p].user>>]
                    = local[p].balance_ucoin - Money(call[p].amount_ucoin)
       /\ NoNegativeBalance(walletCache')]_vars

\* C6: record_purchase returns only when the amount is at most the balance read
\* under the row lock; it then leaves balance - amount when its reference was
\* not posted before, and the balance as it was when it was; no interleaving of
\* record_purchase and top-up requests makes a cached balance negative
C6_SuccessLeavesDifferenceOnce ==
    [][/\ \A p \in Procs :
            PurchaseReturns(p)
            => /\ Money(call[p].amount_ucoin) <= local[p].balance_ucoin
               /\ local[p].balance_ucoin = GetBalance(DB, call[p].event, call[p].user)
               /\ walletCache'[<<call[p].event, call[p].user>>]
                    = IF call[p].idempotency_key \in IdempotencyKeys(DB)
                      THEN local[p].balance_ucoin
                      ELSE local[p].balance_ucoin - Money(call[p].amount_ucoin)
       /\ NoNegativeBalance(walletCache')]_vars

\* a first purchase has returned while another request was in flight
C6_Witness ==
    /\ last.op = "record_purchase"
    /\ last.raised = "none"
    /\ ~last.replay
    /\ InFlight # {}
    /\ \E tx \in 1..Len(ledgerTx) : ledgerTx[tx].tx_type = "purchase"

\* the successful top-ups of a wallet, and what its purchases charged
TopupsCommitted(d, event, user) ==
    SumSeq([i \in 1..Len(d.topupRecords) |->
               IF d.topupRecords[i].event = event /\ d.topupRecords[i].user = user
               THEN d.topupRecords[i].amount_ucoin ELSE 0])

PurchasesCommitted(d, event, user) ==
    -SumEntries(d, {i \in WalletEntries(d, event, user) :
                       d.ledgerTx[d.ledgerEntries[i].transaction].tx_type = "purchase"})

\* C8: in every interleaving of top-up and purchase requests on a wallet, the
\* committed cached balance is the committed top-ups minus the committed
\* purchases, and the purchases never total more than the top-ups
C8_NoLostUpdateNoDoubleSpend ==
    \A event \in SpecEvents, user \in SpecUsers :
        /\ GetBalance(DB, event, user)
             = TopupsCommitted(DB, event, user) - PurchasesCommitted(DB, event, user)
        /\ PurchasesCommitted(DB, event, user) <= TopupsCommitted(DB, event, user)

\* a purchase is committed on a funded wallet and, of a purchase and a top-up
\* in flight on it, one holds the row while the other waits for it
C8_Witness ==
    \E event \in SpecEvents, user \in SpecUsers, p \in Procs, q \in Procs :
        /\ p # q
        /\ rowLock[<<event, user>>] = p
        /\ pc[q] = "lock" /\ call[q].event = event /\ call[q].user = user
        /\ {call[p].op, call[q].op} = {"record_purchase", "record_online_topup"}
        /\ PurchasesCommitted(DB, event, user) > 0
        /\ GetBalance(DB, event, user) > 0

\* C9: of two concurrent post_transaction calls with the same new key that both
\* passed the existence check, none ends with the IntegrityError of the unique
\* index on idempotency_key
C9_NoRawIntegrityError ==
    ~(/\ last.op = "post_transaction"
      /\ last.raised = "IntegrityError"
      /\ last.msg = "idempotency_key")

\* the expiry transactions of a wallet that were posted on a date
ExpiryTxOn(d, event, user, date) ==
    {tx \in 1..Len(d.ledgerTx) :
        /\ d.ledgerTx[tx].tx_type = "expiry"
        /\ d.ledgerTx[tx].event = event
        /\ d.ledgerTx[tx].created_at = date
        /\ \E i \in EntriesOfTx(d, tx) : d.ledgerEntries[i].account = WalletRef(event, user)}

ExpireResult(d, event, user) ==
    Atomic(d, ExpireRemainingBalanceBody(d, event, user, today))

\* two expire_remaining_balance calls made one after the other today
TwoExpirations(event, user) ==
    LET first == ExpireResult(DB, event, user)
        second == ExpireResult(first.db, event, user)
    IN /\ first.raised = "none" /\ second.raised = "none"
       /\ GetBalance(first.db, event, user) = 0
       /\ GetBalance(second.db, event, user) = 0
       /\ Cardinality(ExpiryTxOn(second.db, event, user, today)) <= 1

\* C10 as stated: in any state of a wallet, two expire_remaining_balance calls
\* on the same day leave at most one expiry transaction of that day, and the
\* cached balance is 0.00 after each
C10_AnyWalletExpiresToZero ==
    \A event \in SpecEvents, user \in SpecUsers :
        ~EventClosed(event) => TwoExpirations(event, user)

\* C10: on a wallet whose cached balance is not negative, two
\* expire_remaining_balance calls on the same day leave at most one expiry
\* transaction of that day and the cached balance 0.00 after each; on a
\* negative cached balance both calls return and change nothing
C10_NonNegativeWalletExpiresToZero ==
    \A event \in SpecEvents, user \in SpecUsers :
        ~EventClosed(event)
        => IF GetBalance(DB, event, user) >= 0
           THEN TwoExpirations(event, user)
           ELSE /\ ExpireResult(DB, event, user).raised = "none"
                /\ ExpireResult(DB, event, user).db = DB

\* a second expiration of the day has returned on a wallet that had funds
C10_Witness ==
    /\ last.op = "expire_remaining_balance"
    /\ last.replay
    /\ last.raised = "none"
    /\ Cardinality(ExpiryTxOn(DB, last.event, last.user, today)) = 1
    /\ Balance(DB, last.event, last.user) = 0

\* C11: whenever expire_remaining_balance has returned for a wallet, after any
\* sequence of top-ups, purchases and earlier expirations, its cached balance
\* is 0.00 and the entries on its wallet account sum to 0.00
C11_ExpiredWalletIsEmpty ==
    (last.op = "expire_remaining_balance" /\ last.raised = "none")
    => /\ GetBalance(DB, last.event, last.user) = 0
       /\ LedgerBalance(DB, last.event, last.user) = 0

\* the record_online_topup calls with a source_reference, for any user
ReferencedTopupCalls ==
    [event : SpecEvents, user : Users, amount_ucoin : AmountInputs,
     source_reference : SourceRefs \ {""}]

\* the stored TopupRecords of the event that carry the source_reference
StoredTopups(event, source_reference) ==
    {i \in 1..Len(topupRecords) :
        /\ topupRecords[i].event = event
        /\ topupRecords[i].source_reference = source_reference}

RecordOnlineTopupResult(d, c) ==
    Atomic(d, RecordOnlineTopupBody(d, c.event, c.user, c.amount_ucoin, c.source_reference))

EntryPairs(d, tx) ==
    {<<d.ledgerEntries[i].account, d.ledgerEntries[i].amount_mxn_signed>> :
        i \in EntriesOfTx(d, tx)}

\* store d2 is store d1 with one more TopupRecord of amount a for the user, one
\* more transaction of the key with the entries +a wallet, -a PLATFORM_CASH,
\* and a more in the cache
OneTopupMore(d1, d2, event, user, a, channel, tx_type, idempotency_key) ==
    LET tx == Len(d1.ledgerTx) + 1
        topup == Len(d1.topupRecords) + 1
    IN /\ Len(d2.topupRecords) = topup
       /\ d2.topupRecords[topup].user = user
       /\ d2.topupRecords[topup].event = event
       /\ d2.topupRecords[topup].channel = channel
       /\ d2.topupRecords[topup].amount_ucoin = a
       /\ Len(d2.ledgerTx) = tx
       /\ d2.ledgerTx[tx].idempotency_key = idempotency_key
       /\ d2.ledgerTx[tx].tx_type = tx_type
       /\ d2.ledgerTx[tx].event = event
       /\ Len(d2.ledgerEntries) = Len(d1.ledgerEntries) + 2
       /\ Cardinality(EntriesOfTx(d2, tx)) = 2
       /\ EntryPairs(d2, tx) = {<<WalletRef(event, user), a>>, <<CashRef(event), -a>>}
       /\ GetBalance(d2, event, user) = GetBalance(d1, event, user) + a
       /\ \A w \in DOMAIN d1.walletCache :
             w # <<event, user>> => d2.walletCache[w] = d1.walletCache[w]

TopupCalls ==
    [event : SpecEvents, user : Users, amount_ucoin : AmountInputs,
     source_reference : SourceRefs]

\* C13: a record_online_topup call of a quantized amount a > 0 on a writable
\* event with a new or empty source_reference succeeds, and a successful one
\* creates one TopupRecord, one transaction keyed topup_online:{event}:{id}
\* with the two entries +a wallet and -a PLATFORM_CASH, and adds a to the cache
C13_TopupPostsOnce ==
    \A c \in TopupCalls :
        LET r == RecordOnlineTopupResult(DB, c)
            a == Money(c.amount_ucoin)
            new == c.source_reference = ""
                   \/ StoredTopups(c.event, c.source_reference) = {}
        IN new
           => /\ r.raised = "none" <=> (a > 0 /\ ~EventClosed(c.event))
              /\ r.raised = "none"
                 => /\ r.ret = Len(topupRecords) + 1
                    /\ OneTopupMore(DB, r.db, c.event, c.user, a, "online", "topup_online",
                                    TopupOnlineKey(c.event, r.ret))
                    /\ r.db.creditGrants = creditGrants

\* a top-up of a rounded amount was added to a wallet that had funds
C13_Witness ==
    /\ last.op = "record_online_topup"
    /\ ~last.replay
    /\ last.raised = "none"
    /\ last.amount = 20
    /\ Balance(DB, last.event, last.user) > last.amount
    /\ Len(topupRecords) = 2

GrantCalls == [event : SpecEvents, client_user : Users, staff_user : StaffUsers,
               amount_ucoin : AmountInputs]

GrantCashTopupResult(d, c) ==
    Atomic(d, GrantCashTopupBody(d, c.event, c.client_user, c.staff_user, c.amount_ucoin))

\* store d2 is store d1 after one more grant of a
OneGrantMore(d1, d2, c, a) ==
    /\ OneTopupMore(d1, d2, c.event, c.client_user, a, "cash_staff", "topup_cash",
                    TopupCashKey(c.event, Len(d1.topupRecords) + 1))
    /\ Len(d2.creditGrants) = Len(d1.creditGrants) + 1
    /\ d2.creditGrants[Len(d2.creditGrants)]
         = [event |-> c.event, client_user |-> c.client_user,
            staff_user |-> c.staff_user, amount_ucoin |-> a]

\* C14: every grant_cash_topup call of a quantized amount a > 0 on a writable
\* event creates a TopupRecord and a StaffCreditGrant, posts a transaction
\* keyed topup_cash:{event}:{id} with +a wallet and -a PLATFORM_CASH and adds a
\* to the client's cache; a second identical call does all of it again
C14_EveryGrantCredits ==
    \A c \in GrantCalls :
        LET a == Money(c.amount_ucoin)
            first == GrantCashTopupResult(DB, c)
            second == GrantCashTopupResult(first.db, c)
        IN (a > 0 /\ ~EventClosed(c.event))
           => /\ first.raised = "none" /\ second.raised = "none"
              /\ OneGrantMore(DB, first.db, c, a)
              /\ OneGrantMore(first.db, second.db, c, a)
              /\ GetBalance(second.db, c.event, c.client_user)
                   = GetBalance(DB, c.event, c.client_user) + 2 * a

\* two identical grants are stored and the wallet holds both
C14_Witness ==
    /\ last.op = "grant_cash_topup"
    /\ last.raised = "none"
    /\ Len(creditGrants) = 2
    /\ creditGrants[1] = creditGrants[2]
    /\ Balance(DB, last.event, last.user) = 2 * last.amount

PurchaseArgs == [event : SpecEvents, user : Users, amount_ucoin : AmountInputs,
                 reference_model : RefModels, reference_id : RefIds]

\* the five calls end with the event-closed error and leave store d
RejectedAsClosed(d, r) == r.raised = "EventClosedError" /\ r.db = d

\* C15: while an event's status is closed, every record_online_topup,
\* grant_cash_topup, record_purchase, record_purchase_mirror and
\* expire_remaining_balance call on it raises EventClosedError and leaves
\* accounts, transactions, entries, top-up records, grants and caches as they were
C15_ClosedEventRejectsWrites ==
    \A event \in SpecEvents :
        eventStatus[event] = "closed"
        => /\ \A c \in TopupCalls :
                c.event = event => RejectedAsClosed(DB, RecordOnlineTopupResult(DB, c))
           /\ \A c \in GrantCalls :
                c.event = event => RejectedAsClosed(DB, GrantCashTopupResult(DB, c))
           /\ \A c \in PurchaseArgs :
                c.event = event
                => /\ RejectedAsClosed(DB,
                        Atomic(DB, RecordPurchaseBody(DB, c.event, c.user, c.amount_ucoin,
                                                      c.reference_model, c.reference_id)))
                   /\ RejectedAsClosed(DB,
                        Atomic(DB, RecordPurchaseMirrorBody(DB, c.event, c.user,
                                      c.amount_ucoin, c.reference_model, c.reference_id,
                                      NoCache)))
           /\ \A user \in Users :
                RejectedAsClosed(DB,
                    Atomic(DB, ExpireRemainingBalanceBody(DB, event, user, today)))

\* a purchase was refused on a closed event that has a ledger
C15_Witness ==
    /\ last.op = "record_purchase"
    /\ last.raised = "EventClosedError"
    /\ eventStatus[last.event] = "closed"
    /\ Len(ledgerTx) > 0

\* amounts that quantize to zero or less
NonPositiveInputs == {a \in {-25, -10, -5, -4, 0, 4, 5} : Money(a) <= 0}

\* the call ended in an error and wrote nothing, before any rollback
RejectedUnwritten(d, r) == r.raised \in {"ValueError", "EventClosedError"} /\ r.db = d

\* C16: a top-up or purchase call whose quantized amount is zero or negative
\* raises before it writes: even without the rollback no TopupRecord,
\* StaffCreditGrant, account, transaction, entry or cache row is new or changed
C16_NonPositiveAmountWritesNothing ==
    \A event \in SpecEvents, user \in Users, amount_ucoin \in NonPositiveInputs :
        /\ \A source_reference \in SourceRefs :
              RejectedUnwritten(DB, RecordOnlineTopupBody(DB, event, user, amount_ucoin,
                                                          source_reference))
        /\ \A staff_user \in StaffUsers :
              RejectedUnwritten(DB, GrantCashTopupBody(DB, event, user, staff_user,
                                                       amount_ucoin))
        /\ \A reference_model \in RefModels, reference_id \in RefIds :
              /\ RejectedUnwritten(DB, RecordPurchaseBody(DB, event, user, amount_ucoin,
                                                          reference_model, reference_id))
              /\ RejectedUnwritten(DB, RecordPurchaseMirrorBody(DB, event, user,
                                          amount_ucoin, reference_model, reference_id,
                                          NoCache))

\* a call of an amount that quantizes to zero was refused for its amount
C16_Witness ==
    /\ last.op \in {"record_online_topup", "grant_cash_topup", "record_purchase"}
    /\ last.raised = "ValueError"
    /\ last.amount = 0
    /\ last.msg # "Saldo insuficiente."
    /\ Len(ledgerTx) > 0

\* the signed sum of the entries of the event on the user's wallet account
WalletEntrySum(event, user) ==
    LET rows == {i \in 1..Len(ledgerEntries) :
                    /\ ledgerEntries[i].account = WalletRef(event, user)
                    /\ ledgerTx[ledgerEntries[i].transaction].event = event}
    IN SumEntries(DB, rows)

\* C18: run by itself, reconcile_balance_from_ledger returns the signed sum of
\* the entries on the user's wallet account in the event (0.00 without any) and
\* leaves the cache at it, whatever the cache held; transactions and entries
\* stay as they were, and a second run returns the same and changes nothing
C18_ReconcileSetsLedgerSum ==
    \A event \in SpecEvents, user \in Users :
        LET first == ReconcileBalanceFromLedgerBody(DB, event, user)
            second == ReconcileBalanceFromLedgerBody(first.db, event, user)
        IN /\ first.raised = "none"
           /\ first.ret = WalletEntrySum(event, user)
           /\ HasCacheRow(first.db, event, user)
           /\ Balance(first.db, event, user) = WalletEntrySum(event, user)
           /\ first.db.ledgerTx = ledgerTx
           /\ first.db.ledgerEntries = ledgerEntries
           /\ \A w \in DOMAIN walletCache :
                 w # <<event, user>> => first.db.walletCache[w] = walletCache[w]
           /\ second.raised = "none"
           /\ second.ret = first.ret
           /\ second.db = first.db

\* reconcile has run on a wallet with entries and the cache holds their sum
C18_Witness ==
    /\ last.op = "reconcile_balance_from_ledger"
    /\ last.raised = "none"
    /\ WalletEntrySum(last.event, last.user) \notin ({0} \cup {Money(b) : b \in BalanceInputs})
    /\ GetBalance(DB, last.event, last.user) = WalletEntrySum(last.event, last.user)

\* C17: with reconcile_balance_from_ledger run beside top-ups and purchases on
\* the same wallet, whenever every call has committed the cached balance
\* equals the sum of the entries on the wallet account
C17_ReconcileNeverLeavesStaleCache ==
    InFlight = {}
    => \A event \in SpecEvents, user \in SpecUsers :
          GetBalance(DB, event, user) = LedgerBalance(DB, event, user)

\* the wallet's entries that top-ups and purchases posted
TopupPurchaseEntries(d, event, user) ==
    {i \in WalletEntries(d, event, user) :
        d.ledgerTx[d.ledgerEntries[i].transaction].tx_type
            \in {"topup_online", "topup_cash", "purchase"}}

\* C19: in every committed state each LedgerTransaction has all the entries it
\* was posted with (two, in every call made here), and the cached balance shows
\* exactly the top-up and purchase entries that are visible on the wallet account
C19_NoPartialOperationVisible ==
    /\ \A tx \in 1..Len(ledgerTx) : Cardinality(EntriesOfTx(DB, tx)) = 2
    /\ \A event \in SpecEvents, user \in SpecUsers :
          GetBalance(DB, event, user)
            = SumEntries(DB, TopupPurchaseEntries(DB, event, user))

\* the purchase requests in flight that are past get_balance_cache_for_update
PurchasesPastLock ==
    {p \in Procs : call[p].op = "record_purchase"
                   /\ pc[p] \in {"exists", "check", "insert", "commit"}}

\* C20: a purchase request holds the lock of its balance-cache row from before
\* its existence check until it commits, so concurrent purchases of one
\* (event, reference_model, reference_id) post one transaction with the two
\* entries of one call, none ends in the unique index's IntegrityError, and the
\* cache is charged once per posted purchase
C20_ConcurrentPurchasePostsOnce ==
    /\ \A p \in PurchasesPastLock : rowLock[<<call[p].event, call[p].user>>] = p
    /\ \A event \in SpecEvents, reference_model \in RefModels, reference_id \in RefIds :
          LET posted == TxWithKey(DB, PurchaseKey(event, reference_model, reference_id))
          IN /\ Cardinality(posted) <= 1
             /\ \A tx \in posted :
                   \E user \in SpecUsers, amount_ucoin \in AmountInputs :
                      EntryPairs(DB, tx) = {<<WalletRef(event, user), -Money(amount_ucoin)>>,
                                            <<RevenueRef(event), Money(amount_ucoin)>>}
    /\ last.op = "record_purchase" => last.raised \in {"none", "ValueError"}
    /\ \A event \in SpecEvents, user \in SpecUsers :
          TopupsCommitted(DB, event, user) - GetBalance(DB, event, user)
            = PurchasesCommitted(DB, event, user)

\* two purchase requests of one key are in flight on a funded wallet: one has
\* inserted its transaction under the row lock, the other waits for the row
C20_Witness ==
    \E p \in Procs, q \in Procs :
        /\ p # q
        /\ call[p].op = "record_purchase" /\ call[q].op = "record_purchase"
        /\ call[p].idempotency_key = call[q].idempotency_key
        /\ call[p].user = call[q].user
        /\ local[p].inserted
        /\ rowLock[<<call[p].event, call[p].user>>] = p
        /\ pc[q] = "lock"

\* C21: a record_purchase call with the key, user and amount of a posted
\* purchase returns normally with the wallet's current balance, whatever
\* balance the first call left, one smaller than the amount included
C21_ReplayedPurchaseReturnsBalance ==
    \A c \in PurchaseCalls :
        LET r == RecordPurchaseResult(DB, c)
        IN (~EventClosed(c.event) /\ PurchasesOf(DB, c) # {})
           => /\ r.raised = "none"
              /\ r.ret = GetBalance(DB, c.event, c.user)

\* the LedgerAccount rows of store d with the event and code
AccountsWithCode(d, event, code) == {a \in d.accounts : a.event = event /\ a.code = code}

IsPrefix(old, new) == Len(old) <= Len(new) /\ SubSeq(new, 1, Len(old)) = old

\* C23: no call (top-up, purchase, expiry, reconcile, set_balance, or a replay
\* of one) changes or removes a stored LedgerTransaction or LedgerEntry: each
\* step leaves the stored rows as the beginning of the new tables
C23_LedgerAppendOnly ==
    [][IsPrefix(ledgerTx, ledgerTx') /\ IsPrefix(ledgerEntries, ledgerEntries')]_vars

\* a purchase and an expiry are posted, and reconcile has run after them
C23_Witness ==
    /\ last.op = "reconcile_balance_from_ledger"
    /\ \E tx \in 1..Len(ledgerTx) : ledgerTx[tx].tx_type = "purchase"
    /\ \E tx \in 1..Len(ledgerTx) : ledgerTx[tx].tx_type = "expiry"

\* C24: every stored LedgerEntry has a nonzero amount, and a post_transaction
\* call with a new key and an entry that quantizes to 0.00 raises and leaves
\* every table as it was
C24_ZeroEntryRejectedWhole ==
    /\ \A i \in 1..Len(ledgerEntries) : ledgerEntries[i].amount_mxn_signed # 0
    /\ \A c \in DirectCalls :
          LET r == DirectResult(c)
          IN (/\ c.idempotency_key \notin IdempotencyKeys(DB)
              /\ \E i \in 1..Len(c.amounts) : Money(c.amounts[i]) = 0)
             => (r.raised # "none" /\ r.db = DB)

\* the ledger key of the stored TopupRecord with id topup
TopupKeyOf(topup) ==
    IF topupRecords[topup].channel = "online"
    THEN "topup_online:" \o ToString(topupRecords[topup].event) \o ":" \o ToString(topup)
    ELSE "topup_cash:" \o ToString(topupRecords[topup].event) \o ":" \o ToString(topup)

\* C25: each stored TopupRecord has exactly one LedgerTransaction with the key
\* topup_online:{event}:{id} (online) or topup_cash:{event}:{id} (cash), whose
\* one entry on the user's wallet account is the record's amount_ucoin; and no
\* two records of an event share a non-empty source_reference
C25_TopupRecordHasItsTransaction ==
    /\ \A topup \in 1..Len(topupRecords) :
          LET rec == topupRecords[topup]
              txs == {tx \in 1..Len(ledgerTx) : ledgerTx[tx].idempotency_key = TopupKeyOf(topup)}
          IN /\ Cardinality(txs) = 1
             /\ \A tx \in txs :
                   /\ ledgerTx[tx].event = rec.event
                   /\ ledgerTx[tx].reference_id = topup
                   /\ LET wallet == {i \in EntriesOfTx(DB, tx) :
                                        ledgerEntries[i].account = WalletRef(rec.event, rec.user)}
                      IN /\ Cardinality(wallet) = 1
                         /\ \A i \in wallet :
                               ledgerEntries[i].amount_mxn_signed = rec.amount_ucoin
    /\ \A a \in 1..Len(topupRecords), b \in 1..Len(topupRecords) :
          (/\ a # b
           /\ topupRecords[a].event = topupRecords[b].event
           /\ topupRecords[a].source_reference # "")
          => topupRecords[a].source_reference # topupRecords[b].source_reference

\* an online record with a source_reference and a cash record of another
\* amount are stored, and the reference was presented again
C25_Witness ==
    /\ last.op = "record_online_topup"
    /\ last.replay
    /\ \E a \in 1..Len(topupRecords), b \in 1..Len(topupRecords) :
          /\ topupRecords[a].channel = "online"
          /\ topupRecords[a].source_reference # ""
          /\ topupRecords[b].channel = "cash_staff"
          /\ topupRecords[a].amount_ucoin # topupRecords[b].amount_ucoin

\* the tables of store a and store b that the ledger and the wallets live in
SameLedgerAndWallets(a, b) ==
    /\ a.ledgerTx = b.ledgerTx
    /\ a.ledgerEntries = b.ledgerEntries
    /\ a.topupRecords = b.topupRecords
    /\ a.walletCache = b.walletCache

\* C26: a second backfill_v2 run over the same legacy recharges and purchases
\* leaves transactions, entries, top-up records and cached balances as the
\* first run left them, whatever was stored before the first run
C26_BackfillRerunChangesNothing ==
    \A event \in SpecEvents, data \in LegacyData :
        LET first == Atomic(DB, BackfillBody(DB, event, data))
            second == Atomic(first.db, BackfillBody(first.db, event, data))
        IN /\ SameLedgerAndWallets(first.db, second.db)
           /\ second.raised = first.raised

\* a run found its purchases and a recharge already backfilled and succeeded
C26_Witness ==
    /\ last.op = "backfill_v2"
    /\ last.replay
    /\ last.raised = "none"
    /\ \E i \in 1..Len(topupRecords) : topupRecords[i].source_reference = "legacy_recharge:1"
    /\ \E i \in 1..Len(ledgerTx) : ledgerTx[i].idempotency_key = "purchase:1:legacy_purchase:2"

\* the first precondition of record_purchase that call c fails in the current state
FirstFailure(c) ==
    IF eventStatus[c.event] = "closed" THEN "event closed"
    ELSE IF Money(c.amount_ucoin) <= 0 THEN "invalid amount"
    ELSE IF GetBalance(DB, c.event, c.user) < Money(c.amount_ucoin) THEN "insufficient funds"
    ELSE "none"

\* C30: record_purchase raises exactly when a precondition fails, and calls
\* whose first failing precondition differs (event closed, invalid amount,
\* insufficient funds, in this order) end with different kinds of error
C30_DistinctErrorKinds ==
    \A c1 \in PurchaseArgs, c2 \in PurchaseArgs :
        LET r1 == RecordPurchaseResult(DB, c1)
            r2 == RecordPurchaseResult(DB, c2)
        IN /\ FirstFailure(c1) # "none" => r1.raised # "none"
           /\ FirstFailure(c1) # FirstFailure(c2) => r1.raised # r2.raised

\* ------------------------------------------------------------ commerce
\* bounds of the commerce runs
MaxQuantity == 2
MaxOrders == 2
MaxTokens == 3
MaxLogs == 3
MaxNow == 180
\* the step of the clock, in minutes
TickMinutes == 60
\* create_order_qr_token: ttl_minutes=120
TtlMinutes == 120

\* the tables the CheckoutService and the FulfillmentService write, as one value
Shop ==
    [stallProducts |-> stallProducts, cartItems |-> cartItems,
     stockMovements |-> stockMovements, salesOrders |-> salesOrders,
     orderQrTokens |-> orderQrTokens, deliveryLogs |-> deliveryLogs]

StoreShop(s) ==
    /\ stallProducts' = s.stallProducts
    /\ cartItems' = s.cartItems
    /\ stockMovements' = s.stockMovements
    /\ salesOrders' = s.salesOrders
    /\ orderQrTokens' = s.orderQrTokens
    /\ deliveryLogs' = s.deliveryLogs

\* a call on both stores that ended: the stores it leaves, and how it ended
Ended(d, s, error, message, value) ==
    [db |-> d, shop |-> s, raised |-> error, msg |-> message, ret |-> value]

\* _hash_token: the SHA-256 hex digest of the raw token, collision-free
HashToken(raw_token) == "sha256(" \o raw_token \o ")"

\* secrets.token_urlsafe(24): a token no earlier call returned
NewRawToken(s) == "tok-" \o ToString(Len(s.orderQrTokens) + 1)

\* the raw tokens a scan may present: the issued ones, a forged one, none
RawTokens == {"", "forged"} \cup {"tok-" \o ToString(n) : n \in 1..MaxTokens}

ActiveTokens(s, order) ==
    {i \in 1..Len(s.orderQrTokens) :
        s.orderQrTokens[i].order = order /\ s.orderQrTokens[i].is_active}

\* create_order_qr_token: deactivate the active tokens of the order, store the
\* hash of a new one
CreateOrderQrToken(s, order, at, ttl_minutes) ==
    [s EXCEPT !.orderQrTokens =
        Append([i \in DOMAIN @ |-> IF @[i].order = order /\ @[i].is_active
                                   THEN [@[i] EXCEPT !.is_active = FALSE] ELSE @[i]],
               [order |-> order, token_hash |-> HashToken(NewRawToken(s)),
                expires_at |-> at + ttl_minutes, is_active |-> TRUE])]

\* the CartItem rows of the user in the event, by id
CartOf(s, event, user) ==
    SelectSeq(s.cartItems, LAMBDA item : item.event = event /\ item.user = user)

RECURSIVE Subtotal(_, _)
Subtotal(s, cart_items) ==
    IF cart_items = <<>> THEN 0
    ELSE Money(s.stallProducts[Head(cart_items).stall_product].price_ucoin
                 * Head(cart_items).quantity)
         + Subtotal(s, Tail(cart_items))

RECURSIVE ValidateStockAndApply_CheckOnly(_, _)
ValidateStockAndApply_CheckOnly(s, cart_items) ==
    IF cart_items = <<>> THEN [shop |-> s, raised |-> "none", msg |-> ""]
    ELSE LET cart_item == Head(cart_items)
             stall_product == s.stallProducts[cart_item.stall_product]
         IN IF stall_product.stock_mode = "unlimited"
            THEN ValidateStockAndApply_CheckOnly(s, Tail(cart_items))
            ELSE IF stall_product.stock_qty < cart_item.quantity
            THEN [shop |-> s, raised |-> "ValueError", msg |-> "Stock insuficiente"]
            ELSE ValidateStockAndApply_CheckOnly(s, Tail(cart_items))

\* _validate_stock_and_apply: item by item, the stock of a finite product is
\* checked and decreased by the quantity
RECURSIVE ValidateStockAndApply(_, _)
ValidateStockAndApply(s, cart_items) ==
    IF cart_items = <<>> THEN [shop |-> s, raised |-> "none", msg |-> ""]
    ELSE LET cart_item == Head(cart_items)
             stall_product == s.stallProducts[cart_item.stall_product]
         IN IF stall_product.stock_mode = "unlimited"
            THEN ValidateStockAndApply(s, Tail(cart_items))
            ELSE IF stall_product.stock_qty < cart_item.quantity
            THEN [shop |-> s, raised |-> "ValueError", msg |-> "Stock insuficiente"]
            ELSE ValidateStockAndApply(
                     [s EXCEPT !.stallProducts[cart_item.stall_product].stock_qty =
                                   @ - cart_item.quantity,
                               !.stockMovements =
                                   Append(@, [stall_product |-> cart_item.stall_product,
                                              movement_type |-> "sale",
                                              quantity_delta |-> -cart_item.quantity])],
                     Tail(cart_items))

\* _next_order_number: the highest order_number of the event, plus one
NextOrderNumber(s, event) ==
    LET numbers == {s.salesOrders[i].order_number :
                       i \in {j \in 1..Len(s.salesOrders) : s.salesOrders[j].event = event}}
    IN IF numbers = {} THEN 1
       ELSE (CHOOSE n \in numbers : \A m \in numbers : m <= n) + 1

OrderItems(s, cart_items) ==
    [i \in DOMAIN cart_items |->
        [stall_product |-> cart_items[i].stall_product,
         quantity |-> cart_items[i].quantity,
         line_total_snapshot |->
             Money(s.stallProducts[cart_items[i].stall_product].price_ucoin
                     * cart_items[i].quantity)]]

\* checkout_cart, before its transaction ends
CheckoutCartBody(d, s, event, user, at) ==
    LET cart_items == CartOf(s, event, user)
        stall_ids == {s.stallProducts[cart_items[i].stall_product].stall :
                         i \in DOMAIN cart_items}
        subtotal == Subtotal(s, cart_items)
        total == Money(subtotal)
        d1 == GetBalanceCacheForUpdate(d, event, user)
        order_id == Len(s.salesOrders) + 1
        order == [event |-> event, buyer_user |-> user,
                  stall |-> CHOOSE stall \in stall_ids : TRUE,
                  order_number |-> NextOrderNumber(s, event), status |-> "paid",
                  subtotal_ucoin |-> subtotal, total_ucoin |-> total,
                  items |-> OrderItems(s, cart_items)]
        s1 == [s EXCEPT !.salesOrders = Append(@, order)]
        v == ValidateStockAndApply(s1, cart_items)
        p == RecordPurchaseBody(d1, event, user, total, "sales_order", order_id)
        s2 == [v.shop EXCEPT !.cartItems =
                  SelectSeq(@, LAMBDA item : ~(item.event = event /\ item.user = user))]
    IN IF EventClosed(event)
       THEN Ended(d, s, "EventClosedError", "El evento esta cerrado y en modo solo lectura.", 0)
       ELSE IF cart_items = <<>>
       THEN Ended(d, s, "ValueError", "No hay productos en el carrito.", 0)
       ELSE IF Cardinality(stall_ids) # 1
       THEN Ended(d, s, "ValueError",
                  "El carrito solo puede contener productos de un puesto por checkout.", 0)
       ELSE IF GetBalance(d1, event, user) < total
       THEN Ended(d1, s, "ValueError", "Saldo insuficiente.", 0)
       ELSE IF v.raised # "none" THEN Ended(d1, v.shop, v.raised, v.msg, 0)
       ELSE IF p.raised # "none" THEN Ended(p.db, v.shop, p.raised, p.msg, 0)
       ELSE Ended(p.db, CreateOrderQrToken(s2, order_id, at, TtlMinutes), "none", "", order_id)

\* @transaction.atomic around checkout_cart: the tables of both services are
\* committed together or rolled back together
CheckoutCartAtomic(d, s, event, user, at) ==
    LET r == CheckoutCartBody(d, s, event, user, at)
        a == Atomic(d @@ s, [db |-> r.db @@ r.shop, raised |-> r.raised, msg |-> r.msg,
                             ret |-> r.ret])
    IN Ended([f \in DOMAIN d |-> a.db[f]], [f \in DOMAIN s |-> a.db[f]],
             a.raised, a.msg, a.ret)

\* core.views.menu_alimentos, POST: a product of the stall of the cart is added
\* to the cart, or its quantity raised by one
AddCartItem(event, user, picked) ==
    \E product \in picked :
        LET cart == CartOf(Shop, event, user)
            available == stallProducts[product].stock_mode = "unlimited"
                           \/ stallProducts[product].stock_qty > 0
            rows == {i \in 1..Len(cartItems) :
                        /\ cartItems[i].event = event /\ cartItems[i].user = user
                        /\ cartItems[i].stall_product = product}
        IN /\ available
           /\ \A i \in DOMAIN cart :
                  stallProducts[cart[i].stall_product].stall = stallProducts[product].stall
           /\ \A i \in rows : cartItems[i].quantity < MaxQuantity
           /\ cartItems' =
                  IF rows = {}
                  THEN Append(cartItems, [event |-> event, user |-> user,
                                          stall_product |-> product, quantity |-> 1])
                  ELSE [i \in DOMAIN cartItems |->
                           IF i \in rows THEN [cartItems[i] EXCEPT !.quantity = @ + 1]
                           ELSE cartItems[i]]
           /\ last' = [NoCall EXCEPT !.op = "add_cart_item", !.event = event, !.user = user]
           /\ UNCHANGED <<stallProducts, stockMovements, salesOrders, orderQrTokens, deliveryLogs, now>>
           /\ UNCHANGED <<vendor, eventStatus, today, roleVars>>
           /\ UNCHANGED storeVars
           /\ UNCHANGED requestVars

CheckoutCart(event, user) ==
    \E r \in {CheckoutCartAtomic(DB, Shop, event, user, now)} :
        /\ Len(r.shop.salesOrders) <= MaxOrders
        /\ Len(r.shop.orderQrTokens) <= MaxTokens
        /\ Store(r.db)
        /\ StoreShop(r.shop)
        /\ last' = [op |-> "checkout_cart", event |-> event, user |-> user,
                    amount |-> Money(Subtotal(Shop, CartOf(Shop, event, user))),
                    replay |-> FALSE, raised |-> r.raised, msg |-> r.msg]
        /\ UNCHANGED <<vendor, eventStatus, today, now, roleVars>>
        /\ UNCHANGED requestVars

\* the clock
Tick ==
    /\ now + TickMinutes <= MaxNow
    /\ now' = now + TickMinutes
    /\ last' = [NoCall EXCEPT !.op = "tick"]
    /\ UNCHANGED <<stallProducts, cartItems, stockMovements, salesOrders, orderQrTokens, deliveryLogs>>
    /\ UNCHANGED <<vendor, eventStatus, today, roleVars>>
    /\ UNCHANGED storeVars
    /\ UNCHANGED requestVars

\* ------------------------------------------------------------ fulfillment
\* the tokens of the order that are active and not expired at the time
LiveTokens(s, order, at) ==
    {i \in ActiveTokens(s, order) : s.orderQrTokens[i].expires_at > at}

DeliveryLog(order, action, actor_user) ==
    [order |-> order, action |-> action, actor_user |-> actor_user]

VerifyQrAndDeliverBody_AnyToken(s, order, raw_token, actor_user, at) ==
    LET live == LiveTokens(s, order, at)
        active_token == CHOOSE i \in live : \A j \in live : j <= i
    IN IF raw_token = "" \/ live = {}
       THEN [shop |-> [s EXCEPT !.deliveryLogs =
                          Append(@, DeliveryLog(order, "scan_fail", actor_user))],
             ret |-> FALSE]
       ELSE [shop |-> [s EXCEPT !.orderQrTokens[active_token].is_active = FALSE,
                                !.deliveryLogs =
                                    @ \o <<DeliveryLog(order, "scan_ok", actor_user),
                                           DeliveryLog(order, "mark_delivered", actor_user)>>,
                                !.salesOrders[order].status = "delivered"],
             ret |-> TRUE]

\* verify_qr_and_deliver: the latest live token of the order must carry the hash
\* of the presented token; it is used up, and the order is delivered
VerifyQrAndDeliverBody(s, order, raw_token, actor_user, at) ==
    LET live == LiveTokens(s, order, at)
        active_token == CHOOSE i \in live : \A j \in live : j <= i
    IN IF \/ raw_token = ""
          \/ live = {}
          \/ s.orderQrTokens[active_token].token_hash # HashToken(raw_token)
       THEN [shop |-> [s EXCEPT !.deliveryLogs =
                          Append(@, DeliveryLog(order, "scan_fail", actor_user))],
             ret |-> FALSE]
       ELSE [shop |-> [s EXCEPT !.orderQrTokens[active_token].is_active = FALSE,
                                !.deliveryLogs =
                                    @ \o <<DeliveryLog(order, "scan_ok", actor_user),
                                           DeliveryLog(order, "mark_delivered", actor_user)>>,
                                !.salesOrders[order].status = "delivered"],
             ret |-> TRUE]

VerifyQrAndDeliver(order) ==
    \E raw_token \in RawTokens, actor_user \in StaffUsers :
        \E r \in {VerifyQrAndDeliverBody(Shop, order, raw_token, actor_user, now)} :
            /\ Len(r.shop.deliveryLogs) <= MaxLogs
            /\ StoreShop(r.shop)
            /\ last' = [op |-> "verify_qr_and_deliver", event |-> salesOrders[order].event,
                        user |-> actor_user, amount |-> 0, replay |-> FALSE,
                        raised |-> "none", msg |-> "", order |-> order,
                        raw_token |-> raw_token, ret |-> r.ret]
            /\ UNCHANGED <<vendor, eventStatus, today, now, roleVars>>
            /\ UNCHANGED storeVars
            /\ UNCHANGED requestVars

\* create_order_qr_token called for an order that has one
CreateOrderQrTokenCall(order) ==
    /\ Len(orderQrTokens) < MaxTokens
    /\ StoreShop(CreateOrderQrToken(Shop, order, now, TtlMinutes))
    /\ last' = [NoCall EXCEPT !.op = "create_order_qr_token",
                              !.event = salesOrders[order].event]
    /\ UNCHANGED <<vendor, eventStatus, today, now, roleVars>>
    /\ UNCHANGED storeVars
    /\ UNCHANGED requestVars

\* a buyer fills a cart and checks out, and the event is closed
NextCheckout ==
    \/ \E event \in SpecEvents, user \in SpecUsers :
        \/ SetBalance(event, user)
        \/ AddCartItem(event, user, Products)
        \/ CheckoutCart(event, user)
    \/ \E event \in SpecEvents : CloseEvent(event)

SpecCheckout == Init /\ [][NextCheckout]_vars

\* the product the buyer of a fulfillment run orders
FulfillmentProducts == {1}

\* a buyer orders, tokens are issued and scanned, and time passes
NextFulfillment ==
    \/ \E event \in SpecEvents, user \in SpecUsers :
        \/ SetBalance(event, user)
        \/ AddCartItem(event, user, FulfillmentProducts)
        \/ CheckoutCart(event, user)
    \/ \E order \in 1..Len(salesOrders) :
        \/ CreateOrderQrTokenCall(order)
        \/ VerifyQrAndDeliver(order)
    \/ Tick

SpecFulfillment == Init /\ [][NextFulfillment]_vars

\* ------------------------------------------------------------ C27
\* the quantity of the product in the cart rows
RECURSIVE QuantityIn(_, _)
QuantityIn(cart_items, product) ==
    IF cart_items = <<>> THEN 0
    ELSE (IF Head(cart_items).stall_product = product THEN Head(cart_items).quantity ELSE 0)
         + QuantityIn(Tail(cart_items), product)

\* C27: a checkout_cart that succeeds on a cart of total t had t within the
\* buyer's balance; it adds one order, in status paid and of total t, takes
\* exactly t from the buyer's cached balance, takes the ordered quantity from the
\* stock_qty of each finite-stock product and leaves the other stock alone,
\* posts one purchase transaction keyed by the id of the order, and leaves the
\* buyer's cart empty
C27_CheckoutSettlesTheCart ==
    \A event \in SpecEvents, user \in SpecUsers :
        LET cart_items == CartOf(Shop, event, user)
            t == Money(Subtotal(Shop, cart_items))
            r == CheckoutCartAtomic(DB, Shop, event, user, now)
            order_id == Len(salesOrders) + 1
            tx == Len(ledgerTx) + 1
        IN r.raised = "none" =>
            /\ t <= GetBalance(DB, event, user)
            /\ Len(r.shop.salesOrders) = Len(salesOrders) + 1
            /\ SubSeq(r.shop.salesOrders, 1, Len(salesOrders)) = salesOrders
            /\ r.shop.salesOrders[order_id].status = "paid"
            /\ r.shop.salesOrders[order_id].buyer_user = user
            /\ r.shop.salesOrders[order_id].total_ucoin = t
            /\ Balance(r.db, event, user) = GetBalance(DB, event, user) - t
            /\ \A product \in Products :
                  r.shop.stallProducts[product].stock_qty =
                      stallProducts[product].stock_qty
                        - (IF stallProducts[product].stock_mode = "finite"
                           THEN QuantityIn(cart_items, product) ELSE 0)
            /\ Len(r.db.ledgerTx) = Len(ledgerTx) + 1
            /\ SubSeq(r.db.ledgerTx, 1, Len(ledgerTx)) = ledgerTx
            /\ r.db.ledgerTx[tx].tx_type = "purchase"
            /\ r.db.ledgerTx[tx].idempotency_key = PurchaseKey(event, "sales_order", order_id)
            /\ r.db.ledgerTx[tx].reference_id = order_id
            /\ CartOf(r.shop, event, user) = <<>>

\* a checkout of two units of the finite product ended well: the order is paid,
\* the stock went from 2 to 0, the balance from 0.030 to 0.010, the purchase is
\* posted and the cart is empty
C27_Witness ==
    /\ last.op = "checkout_cart"
    /\ last.raised = "none"
    /\ last.amount = 20
    /\ GetBalance(DB, 1, 1) = 10
    /\ Len(salesOrders) >= 1
    /\ salesOrders[Len(salesOrders)].status = "paid"
    /\ stallProducts[1].stock_qty = 0
    /\ \E tx \in 1..Len(ledgerTx) :
          ledgerTx[tx].idempotency_key = PurchaseKey(1, "sales_order", Len(salesOrders))
    /\ cartItems = <<>>

\* ------------------------------------------------------------ C28
\* the token rows of the order that carry the hash of the raw token
TokensWithHashOf(order, raw_token) ==
    {i \in 1..Len(orderQrTokens) :
        /\ orderQrTokens[i].order = order
        /\ orderQrTokens[i].token_hash = HashToken(raw_token)}

\* C28: verify_qr_and_deliver returns true, and marks the order delivered, only
\* for a token whose hash is that of the order's active and unexpired token,
\* which it deactivates; a verification that returns false leaves orders and
\* tokens as they were and logs one scan failure, and so does every
\* verification with a token that is no longer active, a used one included;
\* an order has at most one active token, and issuing a token leaves the new
\* one as the only active token of the order
C28_QrTokenDeliversOnce ==
    /\ \A order \in 1..Len(salesOrders), raw_token \in RawTokens, actor_user \in StaffUsers :
          LET r == VerifyQrAndDeliverBody(Shop, order, raw_token, actor_user, now)
              presented == TokensWithHashOf(order, raw_token)
              live == {i \in presented : orderQrTokens[i].is_active
                                           /\ orderQrTokens[i].expires_at > now}
          IN /\ r.ret => /\ live # {}
                         /\ r.shop.salesOrders[order].status = "delivered"
                         /\ \A i \in presented : ~r.shop.orderQrTokens[i].is_active
             /\ ~r.ret => /\ r.shop.salesOrders = salesOrders
                          /\ r.shop.orderQrTokens = orderQrTokens
                          /\ r.shop.deliveryLogs =
                                 Append(deliveryLogs, DeliveryLog(order, "scan_fail", actor_user))
             /\ (presented # {} /\ \A i \in presented : ~orderQrTokens[i].is_active) => ~r.ret
    /\ \A order \in 1..Len(salesOrders) :
          /\ Cardinality(ActiveTokens(Shop, order)) <= 1
          /\ ActiveTokens(CreateOrderQrToken(Shop, order, now, TtlMinutes), order)
                 = {Len(orderQrTokens) + 1}
    /\ (last.op = "verify_qr_and_deliver" /\ last.ret) =>
          /\ salesOrders[last.order].status = "delivered"
          /\ TokensWithHashOf(last.order, last.raw_token) # {}
          /\ \A i \in TokensWithHashOf(last.order, last.raw_token) : ~orderQrTokens[i].is_active

\* the token that delivered the order was presented again: the scan failed, a
\* scan failure follows the delivery in the log, and the order is as it was
C28_Witness ==
    /\ last.op = "verify_qr_and_deliver"
    /\ ~last.ret
    /\ salesOrders[last.order].status = "delivered"
    /\ TokensWithHashOf(last.order, last.raw_token) # {}
    /\ Len(deliveryLogs) = 3
    /\ deliveryLogs[1].action = "scan_ok"
    /\ deliveryLogs[2].action = "mark_delivered"
    /\ deliveryLogs[3].action = "scan_fail"
    /\ \A i \in 1..3 : deliveryLogs[i].order = last.order

\* ------------------------------------------------------------ roles
MaxAuditLogs == 2

UserHasGroup(groups, event, user, group_name) == <<event, user, group_name>> \in groups

\* StaffOpsService._assert_staff: a superuser, or a user in the staff group of
\* the event
IsStaff(groups, event, user) ==
    user \in Superusers \/ UserHasGroup(groups, event, user, "staff")

ProtectedRoles_None(staff_user, target_user) == {}

\* the roles sync_user_roles never removes: cliente, and staff from the acting
\* user
ProtectedRoles(staff_user, target_user) ==
    {"cliente"} \cup (IF target_user = staff_user THEN {"staff"} ELSE {})

\* sync_user_roles, inside its atomic block: nothing is written when it raises
SyncUserRolesBody(groups, logs, event, staff_user, target_user, desired_group_names) ==
    LET manageable_group_names == PROFILE_GROUP_NAMES
        desired == {group_name \in desired_group_names : group_name # ""}
        desired_manageable == desired \cap manageable_group_names
        current_manageable ==
            {group_name \in manageable_group_names :
                UserHasGroup(groups, event, target_user, group_name)}
        to_add == desired_manageable \ current_manageable
        kept == (current_manageable \ desired_manageable)
                  \cap ProtectedRoles(staff_user, target_user)
        to_remove == (current_manageable \ desired_manageable) \ kept
        ignored == (desired \ manageable_group_names) \cup kept
        payload == [target_user_id |-> target_user, desired |-> desired_manageable,
                    added |-> to_add, removed |-> to_remove, ignored |-> ignored]
    IN IF EventClosed(event)
       THEN [groups |-> groups, logs |-> logs, raised |-> "EventClosedError",
             msg |-> "El evento esta cerrado y en modo solo lectura."]
       ELSE IF ~IsStaff(groups, event, staff_user)
       THEN [groups |-> groups, logs |-> logs, raised |-> "StaffPermissionError",
             msg |-> "Solo staff puede ejecutar esta accion."]
       ELSE [groups |-> (groups \cup {<<event, target_user, g>> : g \in to_add})
                           \ {<<event, target_user, g>> : g \in to_remove},
             logs |-> Append(logs, [event |-> event, staff_user |-> staff_user,
                                    action_type |-> "sync_roles", target_id |-> target_user,
                                    payload |-> payload]),
             raised |-> "none", msg |-> ""]

SyncUserRoles(event, staff_user, target_user) ==
    \E desired_group_names \in SUBSET GroupNameInputs :
        \E r \in {SyncUserRolesBody(userGroups, staffAuditLogs, event, staff_user,
                                    target_user, desired_group_names)} :
            /\ Len(r.logs) <= MaxAuditLogs
            /\ userGroups' = r.groups
            /\ staffAuditLogs' = r.logs
            /\ last' = [op |-> "sync_user_roles", event |-> event, user |-> target_user,
                        amount |-> 0, replay |-> FALSE, raised |-> r.raised, msg |-> r.msg]
            /\ UNCHANGED <<vendor, eventStatus, today, commerceVars>>
            /\ UNCHANGED storeVars
            /\ UNCHANGED requestVars

\* role changes requested by any user for any user, and the closing of the event
NextRoles ==
    \/ \E event \in SpecEvents, staff_user \in Users, target_user \in Users :
          SyncUserRoles(event, staff_user, target_user)
    \/ \E event \in SpecEvents : CloseEvent(event)

SpecRoles == Init /\ [][NextRoles]_vars

\* ------------------------------------------------------------ C29
\* C29: whatever group names a sync_user_roles call carries, it leaves the
\* target's cliente role in place, leaves the staff role of the acting user in
\* place when they act on themselves, adds only roles that are both requested
\* and among cliente, vendedor and staff, and touches the rows of no other user
\* or event; so every user keeps cliente and no row ever names another group
C29_SyncKeepsProtectedRoles ==
    /\ \A event \in Events, staff_user \in Users, target_user \in Users,
          desired_group_names \in SUBSET GroupNameInputs :
          LET r == SyncUserRolesBody(userGroups, staffAuditLogs, event, staff_user,
                                     target_user, desired_group_names)
          IN /\ UserHasGroup(userGroups, event, target_user, "cliente")
                   => UserHasGroup(r.groups, event, target_user, "cliente")
             /\ (staff_user = target_user
                   /\ UserHasGroup(userGroups, event, staff_user, "staff"))
                   => UserHasGroup(r.groups, event, staff_user, "staff")
             /\ \A row \in r.groups \ userGroups :
                   /\ row[1] = event
                   /\ row[2] = target_user
                   /\ row[3] \in PROFILE_GROUP_NAMES \cap desired_group_names
             /\ \A row \in userGroups \ r.groups :
                   row[1] = event /\ row[2] = target_user
             /\ r.raised # "none" => r.groups = userGroups /\ r.logs = staffAuditLogs
    /\ \A event \in Events, user \in Users : UserHasGroup(userGroups, event, user, "cliente")
    /\ \A row \in userGroups : row[3] \in PROFILE_GROUP_NAMES

\* a staff user asked to drop all their own roles and take the group admin:
\* vendedor was removed, cliente and staff were kept, admin was ignored
C29_Witness ==
    /\ last.op = "sync_user_roles"
    /\ last.raised = "none"
    /\ staffAuditLogs # <<>>
    /\ LET log == staffAuditLogs[Len(staffAuditLogs)]
       IN /\ log.staff_user = log.target_id
          /\ log.payload.removed = {"vendedor"}
          /\ log.payload.added = {}
          /\ log.payload.ignored = {"admin", "cliente", "staff"}
          /\ UserHasGroup(userGroups, log.event, log.target_id, "cliente")
          /\ UserHasGroup(userGroups, log.event, log.target_id, "staff")
          /\ ~UserHasGroup(userGroups, log.event, log.target_id, "vendedor")

\* ------------------------------------------------------------ C31
\* C31: expire_remaining_balance on a wallet whose cached balance is zero or
\* negative posts no transaction and no entry, creates no account and leaves
\* the balance of every cache row as it was; on a writable event it returns
\* normally, with that balance
C31_NothingToExpireIsNoOp ==
    \A event \in SpecEvents, user \in SpecUsers :
        LET r == Atomic(DB, ExpireRemainingBalanceBody(DB, event, user, today))
        IN GetBalance(DB, event, user) <= 0 =>
            /\ r.db.ledgerTx = ledgerTx
            /\ r.db.ledgerEntries = ledgerEntries
            /\ r.db.accounts = accounts
            /\ r.db.topupRecords = topupRecords
            /\ \A w \in DOMAIN r.db.walletCache :
                  r.db.walletCache[w] = IF w \in DOMAIN walletCache THEN walletCache[w] ELSE 0
            /\ DOMAIN r.db.walletCache \subseteq DOMAIN walletCache \cup {<<event, user>>}
            /\ eventStatus[event] # "closed" =>
                  /\ r.raised = "none"
                  /\ r.ret = GetBalance(DB, event, user)

\* an expiration of a wallet at -0.010 returned, and the wallet is at -0.010
\* with no expiry transaction in the ledger
C31_Witness ==
    /\ last.op = "expire_remaining_balance"
    /\ last.raised = "none"
    /\ GetBalance(DB, last.event, last.user) = -10
    /\ \A tx \in 1..Len(ledgerTx) : ledgerTx[tx].tx_type # "expiry"

\* ------------------------------------------------------------ two wallets
\* purchases, expirations and set_balance on the wallets of both users of the
\* event
NextTwoWallets ==
    \E event \in SpecEvents, user \in Users :
        \/ RecordPurchase(event, user) /\ Cap(MaxTx)
        \/ RecordPurchaseMirror(event, user) /\ Cap(MaxTx)
        \/ ExpireRemainingBalance(event, user) /\ Cap(MaxTx)
        \/ SetBalance(event, user)

SpecTwoWallets == Init /\ [][NextTwoWallets]_vars

\* ------------------------------------------------------------ C32
\* the posted purchase transactions of the event that carry the reference
PostedPurchases(event, reference_model, reference_id) ==
    {tx \in 1..Len(ledgerTx) :
        /\ ledgerTx[tx].event = event
        /\ ledgerTx[tx].tx_type = "purchase"
        /\ ledgerTx[tx].reference_model = reference_model
        /\ ledgerTx[tx].reference_id = reference_id}

\* C32: a purchase is keyed purchase:{event}:{reference_model}:{reference_id},
\* a reference has at most one purchase transaction, and a record_purchase or
\* record_purchase_mirror call that names a posted reference, by any user and
\* with any amount, adds no transaction and no entry and leaves every cached
\* balance as it was
C32_ReusedReferenceChargesNobody ==
    \A event \in SpecEvents, reference_model \in RefModels, reference_id \in RefIds :
        LET posted == PostedPurchases(event, reference_model, reference_id)
        IN /\ Cardinality(posted) <= 1
           /\ \A tx \in posted :
                 ledgerTx[tx].idempotency_key =
                     "purchase:" \o ToString(event) \o ":" \o reference_model
                                 \o ":" \o ToString(reference_id)
           /\ posted # {} =>
                 \A user \in Users, amount_ucoin \in AmountInputs :
                     \A r \in {Atomic(DB, RecordPurchaseBody(DB, event, user, amount_ucoin,
                                                             reference_model, reference_id)),
                               Atomic(DB, RecordPurchaseMirrorBody(DB, event, user, amount_ucoin,
                                                                   reference_model, reference_id,
                                                                   NoCache))} :
                         /\ r.db.ledgerTx = ledgerTx
                         /\ r.db.ledgerEntries = ledgerEntries
                         /\ \A e \in Events, u \in Users :
                               GetBalance(r.db, e, u) = GetBalance(DB, e, u)

\* user 2, holding 0.030, named the reference of a purchase of user 1 with
\* another amount: the call returned, the only purchase is the one charged to
\* user 1, and user 2 still holds 0.030
C32_Witness ==
    /\ last.op = "record_purchase"
    /\ last.replay
    /\ last.raised = "none"
    /\ last.user = 2
    /\ GetBalance(DB, 1, 2) = 30
    /\ \E tx \in 1..Len(ledgerTx) :
          /\ ledgerTx[tx].tx_type = "purchase"
          /\ \E i \in EntriesOfTx(DB, tx) :
                /\ ledgerEntries[i].account = WalletRef(1, 1)
                /\ ledgerEntries[i].amount_mxn_signed # -last.amount
    /\ \A i \in 1..Len(ledgerEntries) : ledgerEntries[i].account # WalletRef(1, 2)

\* ------------------------------------------------------------ C33
\* C33: on a writable event, record_purchase_mirror with a reference that is
\* not posted and an amount that quantizes to a > 0 returns whatever the
\* balance is: it adds one purchase transaction with the entries -a on the
\* wallet and +a on the platform revenue, and leaves the cached balance at the
\* previous balance minus a, below zero when a exceeds it
C33_MirrorChargesWithoutFundsCheck ==
    \A event \in SpecEvents, user \in SpecUsers, amount_ucoin \in AmountInputs,
       reference_model \in RefModels, reference_id \in RefIds :
        LET a == Money(amount_ucoin)
            tx == Len(ledgerTx) + 1
            r == Atomic(DB, RecordPurchaseMirrorBody(DB, event, user, amount_ucoin,
                                                     reference_model, reference_id, NoCache))
        IN (/\ eventStatus[event] # "closed"
            /\ a > 0
            /\ PostedPurchases(event, reference_model, reference_id) = {}) =>
            /\ r.raised = "none"
            /\ Len(r.db.ledgerTx) = Len(ledgerTx) + 1
            /\ r.db.ledgerTx[tx].tx_type = "purchase"
            /\ r.db.ledgerTx[tx].reference_id = reference_id
            /\ {<<r.db.ledgerEntries[i].account, r.db.ledgerEntries[i].amount_mxn_signed>> :
                   i \in EntriesOfTx(r.db, tx)}
                 = {<<WalletRef(event, user), -a>>, <<RevenueRef(event), a>>}
            /\ Len(r.db.ledgerEntries) = Len(ledgerEntries) + 2
            /\ Balance(r.db, event, user) = GetBalance(DB, event, user) - a

\* a mirrored purchase of 0.020 was posted on a wallet that held 0.010, and
\* the wallet is at -0.010
C33_Witness ==
    /\ last.op = "record_purchase_mirror"
    /\ ~last.replay
    /\ last.raised = "none"
    /\ last.amount = 20
    /\ GetBalance(DB, last.event, last.user) = -10
    /\ ledgerTx[Len(ledgerTx)].tx_type = "purchase"
    /\ Len(ledgerTx) = 2

C36_FailedCheckoutLeavesNothing ==
    [][(last'.op = "checkout_cart" /\ last'.raised # "none")
          => UNCHANGED <<storeVars, commerceVars>>]_vars

\* a checkout failed on the stock, after its order was created: the cart holds
\* its two units, and there is no order, token or stock movement
C36_Witness ==
    /\ last.op = "checkout_cart"
    /\ last.raised = "ValueError"
    /\ last.msg = "Stock insuficiente"
    /\ \E i \in 1..Len(cartItems) : cartItems[i].quantity = 2 /\ cartItems[i].stall_product = 3
    /\ salesOrders = <<>>
    /\ orderQrTokens = <<>>
    /\ stockMovements = <<>>
    /\ stallProducts = InitialStallProducts

\* ------------------------------------------------------------ concurrent checkouts
\* Requests run checkout_cart statement by statement at READ COMMITTED.  The
\* rows a request locked FOR UPDATE are in its locals until its transaction
\* ends; what it wrote becomes visible at its COMMIT.
MaxConcurrentOrders == 2

\* the products the buyers of a concurrent run pick from
ConcurrentProducts == {1, 4}

CartRow(user, product) == <<"cart_item", user, product>>
ProductRow(product) == <<"stall_product", product, 0>>
StallRow(stall) == <<"stall", stall, 0>>
EventRow(event) == <<"event", event, 0>>

\* no other request holds a lock on one of the rows
RowsFree(p, rows) == \A q \in Procs \ {p} : local[q].locks \cap rows = {}

\* commerce/services.py 80-85: select_for_update() with select_related() locks
\* the CartItem rows and the StallProduct and Stall rows joined to them
JoinedRows(cart_items) ==
    UNION {{CartRow(cart_items[i].user, cart_items[i].stall_product),
            ProductRow(cart_items[i].stall_product),
            StallRow(stallProducts[cart_items[i].stall_product].stall)} :
               i \in DOMAIN cart_items}

JoinedRowsFree_Shared(p, cart_items) == TRUE

JoinedRowsFree(p, cart_items) == RowsFree(p, JoinedRows(cart_items))

EventRowFree_Shared(p, event) == TRUE

\* _next_order_number: select_for_update() on the row of the event
EventRowFree(p, event) == RowsFree(p, {EventRow(event)})

CheckoutsInFlight == {q \in Procs : call[q].op = "checkout_cart"}

\* a run begins checkouts while there is room for the orders of those in flight
RoomForOrders(max_orders) == Len(salesOrders) + Cardinality(CheckoutsInFlight) < max_orders

\* what the statements of a request leave alone until its COMMIT
UncommittedCheckout ==
    /\ UNCHANGED storeVars
    /\ UNCHANGED <<vendor, eventStatus, today, commerceVars, roleVars>>

\* checkout_cart, line 79: assert_event_writable
BeginCheckout(p, event, user) ==
    /\ CanBegin(p)
    /\ IF EventClosed(event)
       THEN Reject("checkout_cart", event, user, 0, "EventClosedError",
                   "El evento esta cerrado y en modo solo lectura.")
       ELSE Begin(p, [NoRequest EXCEPT !.op = "checkout_cart", !.event = event,
                                       !.user = user, !.reference_model = "sales_order"],
                  "cart")
    /\ UncommittedCheckout

\* lines 80-90: the cart rows, locked with the rows joined to them; the
\* statement waits while another request holds one of them, and then reads
\* what is committed
LockCart(p) ==
    LET event == call[p].event
        user == call[p].user
        cart_items == CartOf(Shop, event, user)
        stall_ids == {stallProducts[cart_items[i].stall_product].stall :
                         i \in DOMAIN cart_items}
    IN /\ pc[p] = "cart"
       /\ JoinedRowsFree(p, cart_items)
       /\ IF cart_items = <<>>
          THEN Finish(p, FALSE, "ValueError", "No hay productos en el carrito.")
          ELSE IF Cardinality(stall_ids) # 1
          THEN Finish(p, FALSE, "ValueError",
                      "El carrito solo puede contener productos de un puesto por checkout.")
          ELSE /\ local' = [local EXCEPT ![p].locks = JoinedRows(cart_items),
                                         ![p].cart_items = cart_items,
                                         ![p].stall_products = stallProducts]
               /\ pc' = [pc EXCEPT ![p] = "balance"]
               /\ UNCHANGED <<call, last, rowLock>>
       /\ UncommittedCheckout

\* the products as the request loaded them with its cart
Loaded(p) == [Shop EXCEPT !.stallProducts = local[p].stall_products]

TotalOf(p) == Money(Subtotal(Loaded(p), local[p].cart_items))

\* lines 92-98: the total, and get_balance against it
ReadBalance(p) ==
    /\ pc[p] = "balance"
    /\ IF GetBalance(DB, call[p].event, call[p].user) < TotalOf(p)
       THEN Finish(p, FALSE, "ValueError", "Saldo insuficiente.")
       ELSE /\ pc' = [pc EXCEPT ![p] = "number"]
            /\ UNCHANGED <<call, local, last, rowLock>>
    /\ UncommittedCheckout

\* _next_order_number, lines 35-39: the row of the event is locked, then the
\* highest committed order_number is read
ReadOrderNumber(p) ==
    /\ pc[p] = "number"
    /\ EventRowFree(p, call[p].event)
    /\ local' = [local EXCEPT ![p].locks = @ \cup {EventRow(call[p].event)},
                              ![p].order_number = NextOrderNumber(Shop, call[p].event)]
    /\ pc' = [pc EXCEPT ![p] = "order"]
    /\ UNCHANGED <<call, last, rowLock>>
    /\ UncommittedCheckout

\* the unique constraint on (event, order_number) makes the INSERT wait for a
\* request that inserted the number and has not committed
NumberInserting(p) ==
    \E q \in Procs \ {p} :
        /\ local[q].inserted
        /\ call[q].op = "checkout_cart"
        /\ call[q].event = call[p].event
        /\ local[q].order_number = local[p].order_number

NumberTaken(p) ==
    \E i \in 1..Len(salesOrders) :
        /\ salesOrders[i].event = call[p].event
        /\ salesOrders[i].order_number = local[p].order_number

\* lines 99-108: SalesOrder.objects.create
InsertOrder(p) ==
    /\ pc[p] = "order"
    /\ ~NumberInserting(p)
    /\ IF NumberTaken(p)
       THEN Finish(p, FALSE, "IntegrityError", "uniq_sales_order_event_number")
       ELSE /\ local' = [local EXCEPT ![p].inserted = TRUE]
            /\ pc' = [pc EXCEPT ![p] = "pay"]
            /\ UNCHANGED <<call, last, rowLock>>
    /\ UncommittedCheckout

\* lines 124-132: _validate_stock_and_apply on the products as loaded, then
\* record_purchase up to its funds check under the lock of the wallet row
Pay(p) ==
    LET event == call[p].event
        user == call[p].user
        v == ValidateStockAndApply(Loaded(p), local[p].cart_items)
        balance_ucoin == GetBalance(DB, event, user)
    IN /\ pc[p] = "pay"
       /\ IF v.raised # "none" THEN Finish(p, FALSE, v.raised, v.msg)
          ELSE IF NonPositive(TotalOf(p))
          THEN Finish(p, FALSE, "ValueError", "El monto de compra debe ser mayor a cero.")
          ELSE /\ LockFree(rowLock[<<event, user>>], p)
               /\ IF InsufficientFunds(balance_ucoin, TotalOf(p))
                  THEN Finish(p, FALSE, "ValueError", "Saldo insuficiente.")
                  ELSE /\ rowLock' = [rowLock EXCEPT ![<<event, user>>] = p]
                       /\ local' = [local EXCEPT ![p].balance_ucoin = balance_ucoin]
                       /\ pc' = [pc EXCEPT ![p] = "commit_checkout"]
                       /\ UNCHANGED <<call, last>>
       /\ UncommittedCheckout

\* what the transaction of request p commits: the order with its items, the
\* stock saved from the loaded rows, the purchase, the cart rows deleted by id,
\* and the token
CommittedCheckout(p) ==
    LET event == call[p].event
        user == call[p].user
        cart_items == local[p].cart_items
        order_id == Len(salesOrders) + 1
        order == [event |-> event, buyer_user |-> user,
                  stall |-> stallProducts[cart_items[1].stall_product].stall,
                  order_number |-> local[p].order_number, status |-> "paid",
                  subtotal_ucoin |-> Subtotal(Loaded(p), cart_items),
                  total_ucoin |-> TotalOf(p),
                  items |-> OrderItems(Loaded(p), cart_items)]
        v == ValidateStockAndApply(Loaded(p), cart_items)
        saved == [product \in DOMAIN stallProducts |->
                     IF \E i \in DOMAIN cart_items : cart_items[i].stall_product = product
                     THEN v.shop.stallProducts[product]
                     ELSE stallProducts[product]]
        s1 == [Shop EXCEPT
                 !.salesOrders = Append(@, order),
                 !.stallProducts = saved,
                 !.stockMovements =
                     @ \o SubSeq(v.shop.stockMovements, Len(stockMovements) + 1,
                                 Len(v.shop.stockMovements)),
                 !.cartItems =
                     SelectSeq(@, LAMBDA item :
                         ~\E i \in DOMAIN cart_items :
                              /\ cart_items[i].event = item.event
                              /\ cart_items[i].user = item.user
                              /\ cart_items[i].stall_product = item.stall_product)]
        d1 == GetBalanceCacheForUpdate(DB, event, user)
        m == RecordPurchaseMirrorBody(d1, event, user, TotalOf(p), "sales_order", order_id,
                                      LockedCache(local[p].balance_ucoin))
        a == Atomic(DB @@ Shop,
                    [db |-> m.db @@ CreateOrderQrToken(s1, order_id, now, TtlMinutes),
                     raised |-> m.raised, msg |-> m.msg, ret |-> order_id])
    IN Ended([f \in DOMAIN DB |-> a.db[f]], [f \in DOMAIN Shop |-> a.db[f]],
             a.raised, a.msg, a.ret)

CommitCheckout(p) ==
    /\ pc[p] = "commit_checkout"
    /\ \E r \in {CommittedCheckout(p)} :
          /\ Store(r.db)
          /\ StoreShop(r.shop)
          /\ last' = [op |-> "checkout_cart", event |-> call[p].event, user |-> call[p].user,
                      amount |-> TotalOf(p), replay |-> FALSE, raised |-> r.raised,
                      msg |-> r.msg]
    /\ pc' = [pc EXCEPT ![p] = "idle"]
    /\ call' = [call EXCEPT ![p] = NoRequest]
    /\ local' = [local EXCEPT ![p] = NoLocal]
    /\ rowLock' = [w \in DOMAIN rowLock |-> IF rowLock[w] = p THEN 0 ELSE rowLock[w]]
    /\ UNCHANGED <<vendor, eventStatus, today, now, roleVars>>

\* the add-to-cart view while checkouts are in flight: its UPDATE of a cart row
\* waits for the request that locked the row, and its INSERT of a cart row takes
\* key-share locks on the rows of the product and of the event, which wait for
\* a request that locked them FOR UPDATE
CartWritable(event, user, product) ==
    RowsFree(0, {CartRow(user, product), ProductRow(product), EventRow(event)})

\* two requests check out the carts of two buyers
NextConcurrentCheckout ==
    \/ \E event \in SpecEvents, user \in Users :
        \/ SetBalance(event, user)
        \/ \E product \in ConcurrentProducts :
              AddCartItem(event, user, {product}) /\ CartWritable(event, user, product)
    \/ \E p \in Procs :
        \/ \E event \in SpecEvents, user \in Users :
              BeginCheckout(p, event, user) /\ RoomForOrders(MaxConcurrentOrders)
        \/ LockCart(p)
        \/ ReadBalance(p)
        \/ ReadOrderNumber(p)
        \/ InsertOrder(p)
        \/ Pay(p)
        \/ CommitCheckout(p)

SpecConcurrentCheckout == Init /\ [][NextConcurrentCheckout]_vars

\* the highest order_number among the first n committed orders of the event
RECURSIVE MaxOrderNumber(_, _, _)
MaxOrderNumber(orders, event, n) ==
    IF n = 0 THEN 0
    ELSE LET rest == MaxOrderNumber(orders, event, n - 1)
         IN IF orders[n].event = event /\ orders[n].order_number > rest
            THEN orders[n].order_number
            ELSE rest

\* C35: for every interleaving of concurrent checkouts in one event, each
\* committed order has the number one above the highest number committed
\* before it in the event, so that the numbers of the event are pairwise
\* distinct; two requests never hold a number read under the lock of the event
\* row at once, and no checkout fails on the unique constraint of the number
C35_OrderNumbersUnderEventLock ==
    /\ \A i \in 1..Len(salesOrders) :
           salesOrders[i].order_number
               = MaxOrderNumber(salesOrders, salesOrders[i].event, i - 1) + 1
    /\ \A i, j \in 1..Len(salesOrders) :
           (i # j /\ salesOrders[i].event = salesOrders[j].event)
               => salesOrders[i].order_number # salesOrders[j].order_number
    /\ \A p, q \in Procs :
           (p # q /\ EventRow(call[p].event) \in local[p].locks
                  /\ EventRow(call[q].event) \in local[q].locks)
               => call[p].event # call[q].event
    /\ last.raised # "IntegrityError"

\* two buyers checked out at once: the order of one is committed with number 1
\* while the request of the other, begun before that commit, has read number 2
C35_Witness ==
    /\ Len(salesOrders) = 1
    /\ salesOrders[1].order_number = 1
    /\ \E q \in Procs :
          /\ call[q].op = "checkout_cart"
          /\ call[q].user # salesOrders[1].buyer_user
          /\ call[q].event = salesOrders[1].event
          /\ pc[q] = "commit_checkout"
          /\ local[q].order_number = 2

\* the requests that hold the cart rows of the buyer
HoldersOfCart(event, user) ==
    {p \in Procs : /\ call[p].op = "checkout_cart"
                   /\ call[p].event = event
                   /\ call[p].user = user
                   /\ local[p].cart_items # <<>>}

\* the purchases posted for orders to the wallet of the buyer
OrderPurchases(event, user) ==
    {t \in 1..Len(ledgerTx) :
        /\ ledgerTx[t].tx_type = "purchase"
        /\ ledgerTx[t].reference_model = "sales_order"
        /\ \E e \in 1..Len(ledgerEntries) :
              /\ ledgerEntries[e].transaction = t
              /\ ledgerEntries[e].account = WalletRef(event, user)}

OrdersOf(event, user) ==
    {i \in 1..Len(salesOrders) :
        salesOrders[i].event = event /\ salesOrders[i].buyer_user = user}

\* C37: of the concurrent checkout_cart calls for one (event, user) cart at most
\* one holds the cart rows at a time; an order that is committed takes its
\* items from cart rows that were committed in the cart until then and are
\* gone after, so one cart pays for at most one order, and each order is
\* charged by exactly one purchase; the call that finds the cart empty is
\* rejected and changes nothing
C37_OneCartOneOrder ==
    [][/\ \A event \in SpecEvents, user \in Users :
            /\ Cardinality(HoldersOfCart(event, user))' <= 1
            /\ Cardinality(OrderPurchases(event, user))' = Cardinality(OrdersOf(event, user))'
       /\ Len(salesOrders') > Len(salesOrders) =>
            LET order == salesOrders'[Len(salesOrders')]
                before == CartOf(Shop, order.event, order.buyer_user)
            IN /\ Len(salesOrders') = Len(salesOrders) + 1
               /\ Len(order.items) > 0
               /\ \A i \in DOMAIN order.items :
                    /\ order.items[i].quantity > 0
                    /\ QuantityIn(before, order.items[i].stall_product)
                         = order.items[i].quantity
                    /\ QuantityIn(CartOf([cartItems |-> cartItems'], order.event,
                                         order.buyer_user),
                                  order.items[i].stall_product) = 0
       /\ (last'.op = "checkout_cart" /\ last'.msg = "No hay productos en el carrito.")
            => UNCHANGED <<storeVars, commerceVars>>
      ]_vars

\* the second of two calls for one cart waited for the cart rows, found the
\* cart empty after the order of the first was committed, and was rejected
C37_Witness ==
    /\ last.op = "checkout_cart"
    /\ last.msg = "No hay productos en el carrito."
    /\ Cardinality(OrdersOf(last.event, last.user)) = 1
    /\ Cardinality(OrderPurchases(last.event, last.user)) = 1
    /\ CartOf(Shop, last.event, last.user) = <<>>
    /\ \A p \in Procs : pc[p] = "idle"

\* the quantity of the product sold by the first n committed orders
RECURSIVE SoldQuantity(_, _, _)
SoldQuantity(orders, product, n) ==
    IF n = 0 THEN 0
    ELSE QuantityIn(orders[n].items, product) + SoldQuantity(orders, product, n - 1)

FiniteProducts == {product \in Products : InitialStallProducts[product].stock_mode = "finite"}

\* C38: after any interleaving of checkouts by any buyers, the stock_qty of a
\* finite-stock product is never negative and is the initial stock less the
\* quantity sold by the committed orders, which therefore never exceeds the
\* initial stock; an order is only committed for quantities within the stock
\* committed until then, and a checkout that asks for more is rejected
C38_StockNeverOversold ==
    [][/\ \A product \in FiniteProducts :
            LET sold == SoldQuantity(salesOrders', product, Len(salesOrders'))
            IN /\ stallProducts'[product].stock_qty >= 0
               /\ sold <= InitialStallProducts[product].stock_qty
               /\ stallProducts'[product].stock_qty
                    = InitialStallProducts[product].stock_qty - sold
       /\ \A p \in Procs :
            (pc[p] = "pay" /\ pc'[p] = "idle"
               /\ \E i \in DOMAIN local[p].cart_items :
                     LET product == local[p].cart_items[i].stall_product
                     IN /\ product \in FiniteProducts
                        /\ local[p].cart_items[i].quantity > stallProducts[product].stock_qty)
            => (last'.raised = "ValueError" /\ UNCHANGED <<storeVars, commerceVars>>)
       /\ Len(salesOrders') > Len(salesOrders) =>
            \A product \in FiniteProducts :
                QuantityIn(salesOrders'[Len(salesOrders')].items, product)
                    <= stallProducts[product].stock_qty
      ]_vars

\* two buyers checked out the same finite product at once: the order of the
\* first sold the whole stock, and the second, which had the product in its
\* cart before that, was rejected for the stock
C38_Witness ==
    /\ Len(salesOrders) = 1
    /\ QuantityIn(salesOrders[1].items, 1) = InitialStallProducts[1].stock_qty
    /\ stallProducts[1].stock_qty = 0
    /\ last.op = "checkout_cart"
    /\ last.raised = "ValueError"
    /\ last.user # salesOrders[1].buyer_user
    /\ QuantityIn(CartOf(Shop, last.event, last.user), 1) > 0
    /\ GetBalance(DB, last.event, last.user) >= 20

\* what the operations of WalletService do on the wallet of the user in the
\* event, for every input of the run
WalletOperationResults(d, event, user, date) ==
    {Atomic(d, RecordOnlineTopupBody(d, event, user, amount_ucoin, source_reference)) :
        amount_ucoin \in AmountInputs, source_reference \in SourceRefs}
    \cup {Atomic(d, GrantCashTopupBody(d, event, user, staff_user, amount_ucoin)) :
        amount_ucoin \in AmountInputs, staff_user \in StaffUsers}
    \cup {Atomic(d, RecordPurchaseBody(d, event, user, amount_ucoin, reference_model,
                                       reference_id)) :
        amount_ucoin \in AmountInputs, reference_model \in RefModels, reference_id \in RefIds}
    \cup {Atomic(d, RecordPurchaseMirrorBody(d, event, user, amount_ucoin, reference_model,
                                             reference_id, NoCache)) :
        amount_ucoin \in AmountInputs, reference_model \in RefModels, reference_id \in RefIds}
    \cup {Atomic(d, ExpireRemainingBalanceBody(d, event, user, date)),
          Atomic(d, ReconcileBalanceFromLedgerBody(d, event, user))}
    \cup {Return(SetBalanceRow(d, event, user, balance), 0) : balance \in BalanceInputs}
    \cup {Return(ApplyBalanceDelta(d, event, user, delta), 0) : delta \in AmountInputs}

\* C39: an operation of WalletService on the wallet of user U in event E leaves
\* the cache row of every other (event, user) pair as it was, absent or with the
\* same balance, keeps every entry there was, and adds entries only to the
\* wallet account of U in E and to the accounts PLATFORM_CASH, PLATFORM_REVENUE
\* and PLATFORM_EXPIRY of E
C39_OtherWalletsUntouched ==
    \A event \in SpecEvents, user \in Users :
        \A r \in WalletOperationResults(DB, event, user, today) :
            /\ \A e \in Events, u \in Users :
                  <<e, u>> # <<event, user>> =>
                     /\ HasCacheRow(r.db, e, u) = HasCacheRow(DB, e, u)
                     /\ HasCacheRow(DB, e, u) => Balance(r.db, e, u) = Balance(DB, e, u)
            /\ Len(r.db.ledgerEntries) >= Len(ledgerEntries)
            /\ SubSeq(r.db.ledgerEntries, 1, Len(ledgerEntries)) = ledgerEntries
            /\ \A i \in (Len(ledgerEntries) + 1)..Len(r.db.ledgerEntries) :
                  /\ r.db.ledgerEntries[i].account.event = event
                  /\ r.db.ledgerEntries[i].account.code
                       \in {"WALLET_USER_" \o ToString(user), "PLATFORM_CASH",
                            "PLATFORM_REVENUE", "PLATFORM_EXPIRY"}

\* user 2 was charged a purchase while user 1 holds a balance and entries on
\* the wallet account: the entries of the purchase are on the wallet account of
\* user 2 and on PLATFORM_REVENUE
C39_Witness ==
    /\ last.op = "record_purchase"
    /\ last.user = 2
    /\ last.raised = "none"
    /\ ~last.replay
    /\ HasCacheRow(DB, 1, 1)
    /\ Balance(DB, 1, 1) > 0
    /\ \E i \in 1..Len(ledgerEntries) :
          ledgerEntries[i].account = [event |-> 1, code |-> "WALLET_USER_1"]
    /\ Len(ledgerEntries) >= 2
    /\ ledgerEntries[Len(ledgerEntries) - 1].account = [event |-> 1, code |-> "WALLET_USER_2"]
    /\ ledgerEntries[Len(ledgerEntries)].account = [event |-> 1, code |-> "PLATFORM_REVENUE"]

\* the entries of the event on the account with the code
AccountEntries(d, event, code) ==
    {i \in 1..Len(d.ledgerEntries) : d.ledgerEntries[i].account = AccountRef(event, code)}

PlatformCodes == {"PLATFORM_CASH", "PLATFORM_REVENUE", "PLATFORM_EXPIRY"}

\* the entries of the event on wallet accounts, of the transactions of the types
WalletSideEntries(d, event, tx_types) ==
    {i \in 1..Len(d.ledgerEntries) :
        /\ d.ledgerEntries[i].account.event = event
        /\ d.ledgerEntries[i].account.code \notin PlatformCodes
        /\ d.ledgerTx[d.ledgerEntries[i].transaction].tx_type \in tx_types}

AllTxTypes == {ledgerTx[tx].tx_type : tx \in 1..Len(ledgerTx)}

\* the amounts of the first n TopupRecord rows that belong to the event
RECURSIVE TopupRecordTotal(_, _, _)
TopupRecordTotal(d, event, n) ==
    IF n = 0 THEN 0
    ELSE (IF d.topupRecords[n].event = event /\ d.topupRecords[n].status = "success"
          THEN d.topupRecords[n].amount_ucoin ELSE 0)
         + TopupRecordTotal(d, event, n - 1)

\* C40: in every state committed by the service operations, the entries of
\* PLATFORM_CASH of an event sum to minus the top-ups posted in it (the amounts
\* of its TopupRecord rows, which are the amounts credited to wallets by top-up
\* transactions), those of PLATFORM_REVENUE to the amounts purchases took from
\* wallets, those of PLATFORM_EXPIRY to the amounts expirations took from
\* wallets, and the entries of the wallet accounts and of the three platform
\* accounts sum to 0.00
C40_PlatformAccountsMirrorWallets ==
    \A event \in Events :
        LET cash == SumEntries(DB, AccountEntries(DB, event, "PLATFORM_CASH"))
            revenue == SumEntries(DB, AccountEntries(DB, event, "PLATFORM_REVENUE"))
            expiry == SumEntries(DB, AccountEntries(DB, event, "PLATFORM_EXPIRY"))
            topups == SumEntries(DB, WalletSideEntries(DB, event, {"topup_online", "topup_cash"}))
            purchases == -SumEntries(DB, WalletSideEntries(DB, event, {"purchase"}))
            expirations == -SumEntries(DB, WalletSideEntries(DB, event, {"expiry"}))
            wallets == SumEntries(DB, WalletSideEntries(DB, event, AllTxTypes))
        IN /\ topups = TopupRecordTotal(DB, event, Len(topupRecords))
           /\ cash = -topups
           /\ revenue = purchases
           /\ expiry = expirations
           /\ wallets = topups - purchases - expirations
           /\ wallets + cash + revenue + expiry = 0

\* top-ups, a purchase and an expiration are posted in the event: each platform
\* account holds entries
C40_Witness ==
    /\ SumEntries(DB, AccountEntries(DB, 1, "PLATFORM_CASH")) < 0
    /\ SumEntries(DB, AccountEntries(DB, 1, "PLATFORM_REVENUE")) > 0
    /\ SumEntries(DB, AccountEntries(DB, 1, "PLATFORM_EXPIRY")) > 0
    /\ Len(topupRecords) > 0

====
